---- MODULE Spec2Model ----
(***************************************************************************)
(* Session orchestrator of the project factory: the run store (state.py),  *)
(* the tmux session handle, the marker parser and the LogMonitor polling   *)
(* task (factory.py), driven by the bot handlers of main.py.               *)
(*                                                                         *)
(* Text is a sequence of lexemes.  One lexeme stands for a run of          *)
(* characters that the marker regex and the payload grammar never look     *)
(* inside: the literal "[FACTORY:", a word of \w characters, ":", "]",     *)
(* a newline, a blank, a number with a decimal point, a JSON object text.  *)
(* A file offset counts lexemes.                                           *)
(***************************************************************************)
EXTENDS Integers, Sequences, FiniteSets, TLC

\* ------------------------------------------------------------- bounds
\* number of fragments the agents append to their logs in one behaviour
MaxWrites == 2
\* number of LogMonitor objects constructed in one behaviour
MaxMonitors == 2
\* number of stop() calls a caller other than cmd_stop makes on one monitor
MaxStops == 2
\* number of add_run calls whose runs the store holds at one time
MaxRuns == 3
\* number of markers and pieces of chatter in a text given to parse_markers
MaxPieces == 3
MaxNameLen == 3

\* ------------------------------------------------------------ lexemes
OPEN == "[FACTORY:"
COLON == ":"
CLOSE == "]"
NL == "\n"
BLANK == " "

\* lexemes made of digits only
IntTok == {"1", "2", "95"}
\* lexemes made of \w characters only ([A-Za-z0-9_])
WordTok == {"PHASE", "CLARIFY", "ERROR", "COST", "COMPLETE", "DEBUG",
            "start", "end", "END", "x", "openai", "complete"} \cup IntTok
\* a decimal number: not a word (it holds "."), accepted by float() only
FloatTok == {"0.5"}
\* the text of a JSON object: accepted by json.loads
JsonTok == {"{ok}"}

\* int() of a digit lexeme
IntVal(tok) ==
    CASE tok = "1" -> 1
      [] tok = "2" -> 2
      [] tok = "95" -> 95
      [] OTHER -> 0

\* float() of a numeric lexeme, in tenths
FloatVal(tok) ==
    CASE tok = "0.5" -> 5
      [] OTHER -> 10 * IntVal(tok)

\* str.lower() of a lexeme
LowerTok(tok) ==
    CASE tok = "END" -> "end"
      [] tok = "PHASE" -> "phase"
      [] tok = "CLARIFY" -> "clarify"
      [] tok = "ERROR" -> "error"
      [] tok = "COST" -> "cost"
      [] tok = "COMPLETE" -> "complete"
      [] tok = "DEBUG" -> "debug"
      [] OTHER -> tok

\* str.lower() of a text
Lower(s) == [i \in 1..Len(s) |-> LowerTok(s[i])]

\* str.strip() as int(), float() and json.loads apply it to their argument
RECURSIVE LStrip(_)
LStrip(s) ==
    IF s # <<>> /\ Head(s) = BLANK THEN LStrip(Tail(s)) ELSE s

RECURSIVE RStrip(_)
RStrip(s) ==
    IF s # <<>> /\ s[Len(s)] = BLANK THEN RStrip(SubSeq(s, 1, Len(s) - 1)) ELSE s

Strip(s) == RStrip(LStrip(s))

\* int(s) returns (otherwise it raises ValueError)
IsInt(s) == Len(Strip(s)) = 1 /\ Strip(s)[1] \in IntTok

\* float(s) returns (otherwise it raises ValueError)
IsFloat(s) == Len(Strip(s)) = 1 /\ Strip(s)[1] \in IntTok \cup FloatTok

\* json.loads(s) returns (otherwise it raises JSONDecodeError)
IsJson(s) == Len(Strip(s)) = 1 /\ Strip(s)[1] \in JsonTok \cup IntTok \cup FloatTok

\* the value json.loads(s) returns
JsonLoads(s) ==
    LET tok == Strip(s)[1]
    IN  IF tok \in JsonTok THEN [ok |-> TRUE]
        ELSE [number |-> FloatVal(tok)]

\* str.split(":")
RECURSIVE Split(_)
Split(s) ==
    IF \E i \in 1..Len(s) : s[i] = COLON
    THEN LET i == CHOOSE i \in 1..Len(s) :
                     s[i] = COLON /\ \A j \in 1..(i - 1) : s[j] # COLON
         IN  <<SubSeq(s, 1, i - 1)>> \o Split(SubSeq(s, i + 1, Len(s)))
    ELSE <<s>>

\* ------------------------------------------------------- the marker regex
\* _MARKER_RE = \[FACTORY:(\w+)(?::(.+?))?\]

NoMatch == [start |-> 0, end |-> 0, type |-> "", payload |-> <<>>]

\* last lexeme of the longest run of word lexemes that starts at j (\w+ is greedy)
RECURSIVE WordEnd(_, _)
WordEnd(text, j) ==
    IF j + 1 <= Len(text) /\ text[j + 1] \in WordTok
    THEN WordEnd(text, j + 1)
    ELSE j

\* the characters of group 1
RECURSIVE Join(_)
Join(s) == IF s = <<>> THEN "" ELSE Head(s) \o Join(Tail(s))

\* (.+?)\] with the payload read up to e-1: the first "]" that ends a payload of
\* at least one character, none of them a newline; 0 when there is none
RECURSIVE LazyClose(_, _)
LazyClose(text, e) ==
    IF e > Len(text) THEN 0
    ELSE IF text[e - 1] = NL THEN 0
    ELSE IF text[e] = CLOSE THEN e
    ELSE LazyClose(text, e + 1)

\* the match of _MARKER_RE that starts at position i, or NoMatch
MatchAt(text, i) ==
    IF ~(i + 1 <= Len(text) /\ text[i] = OPEN /\ text[i + 1] \in WordTok)
    THEN NoMatch
    ELSE LET k == WordEnd(text, i + 1)
             e == IF k + 2 <= Len(text) /\ text[k + 1] = COLON
                  THEN LazyClose(text, k + 3)
                  ELSE 0
             type == Join(SubSeq(text, i + 1, k))
         IN  IF e # 0
             THEN [start |-> i, end |-> e, type |-> type,
                   payload |-> SubSeq(text, k + 2, e - 1)]
             ELSE IF k + 1 <= Len(text) /\ text[k + 1] = CLOSE
             THEN [start |-> i, end |-> k + 1, type |-> type, payload |-> <<>>]
             ELSE NoMatch

\* _MARKER_RE.finditer(text) from position i on: the non-overlapping matches,
\* leftmost first
RECURSIVE FindIter(_, _)
FindIter(text, i) ==
    IF i > Len(text) THEN <<>>
    ELSE LET m == MatchAt(text, i)
         IN  IF m.start = 0 THEN FindIter(text, i + 1)
             ELSE <<m>> \o FindIter(text, m.end + 1)

\* ---------------------------------------------------------- parse_markers
\* what the loop body of parse_markers does with one match: it appends a marker
\* (kind "marker"), appends nothing (kind "skip") or raises ValueError (kind "raise")
Appended(marker) == [kind |-> "marker", marker |-> marker]
Skipped == [kind |-> "skip"]
Raised == [kind |-> "raise"]

PhaseBody(payload) ==
    LET parts == Split(payload)
    IN  IF Len(parts) >= 2
        THEN IF ~IsInt(parts[1]) \/ (Len(parts) > 2 /\ ~IsInt(parts[3]))
             THEN Raised
             ELSE Appended([type |-> "phase",
                            phase |-> IntVal(Strip(parts[1])[1]),
                            action |-> Lower(parts[2]),
                            score |-> IF Len(parts) > 2
                                      THEN <<IntVal(Strip(parts[3])[1])>>
                                      ELSE <<>>])
        ELSE Skipped

\* a payload that does not decode drops the marker
JsonBody_drop_undecodable(type, key, payload) ==
    IF IsJson(payload) THEN Appended([type |-> type, data |-> JsonLoads(payload)])
    ELSE Skipped

JsonBody(type, key, payload) ==
    Appended([type |-> type,
              data |-> IF IsJson(payload) THEN JsonLoads(payload)
                       ELSE [k \in {key} |-> payload]])

CostBody(payload) ==
    LET parts == Split(payload)
    IN  IF ~IsFloat(parts[1]) THEN Raised
        ELSE Appended([type |-> "cost",
                       amount |-> FloatVal(Strip(parts[1])[1]),
                       provider |-> IF Len(parts) > 1 THEN parts[2]
                                    ELSE <<"unknown">>])

\* the TYPE compared without regard to case
MarkerBody_any_case(m) ==
    CASE m.type = "PHASE" -> PhaseBody(m.payload)
      [] m.type = "CLARIFY" -> JsonBody("clarify", "question", m.payload)
      [] m.type = "ERROR" -> Appended([type |-> "error", message |-> m.payload])
      [] m.type = "COST" -> CostBody(m.payload)
      [] m.type \in {"COMPLETE", "complete"}
           -> JsonBody("complete", "summary", m.payload)
      [] OTHER -> Skipped

MarkerBody(m) ==
    CASE m.type = "PHASE" -> PhaseBody(m.payload)
      [] m.type = "CLARIFY" -> JsonBody("clarify", "question", m.payload)
      [] m.type = "ERROR" -> Appended([type |-> "error", message |-> m.payload])
      [] m.type = "COST" -> CostBody(m.payload)
      [] m.type = "COMPLETE" -> JsonBody("complete", "summary", m.payload)
      [] OTHER -> Skipped

RECURSIVE SelectMarkers(_)
SelectMarkers(ms) ==
    IF ms = <<>> THEN <<>>
    ELSE LET b == MarkerBody(Head(ms))
         IN  (IF b.kind = "marker" THEN <<b.marker>> ELSE <<>>)
             \o SelectMarkers(Tail(ms))

\* parse_markers(text): the list it returns, or raised = TRUE when it raises
parse_markers(text) ==
    LET ms == FindIter(text, 1)
    IN  IF \E i \in 1..Len(ms) : MarkerBody(ms[i]).kind = "raise"
        THEN [raised |-> TRUE, markers |-> <<>>]
        ELSE [raised |-> FALSE, markers |-> SelectMarkers(ms)]

\* the position in text of the match behind each marker parse_markers returns
RECURSIVE SelectStarts(_)
SelectStarts(ms) ==
    IF ms = <<>> THEN <<>>
    ELSE (IF MarkerBody(Head(ms)).kind = "marker" THEN <<Head(ms).start>> ELSE <<>>)
         \o SelectStarts(Tail(ms))

MarkerStarts(text) == SelectStarts(FindIter(text, 1))

\* ----------------------------------------------------------------- names
\* keys of ENGINES that a project may select
EngineKeys == {"claude", "gemini"}
\* the engine lists the wizard's keyboard can produce here
EngineChoices == {<<"claude">>, <<"claude", "gemini">>}
\* project names that pass the validation of name_input
ProjectNames == {"p1"}
\* Telegram users on the whitelist
Users == {"u1", "u2"}

\* None, and the value of time.time()
None == "None"
Now == "time"

\* f"{project}-{engine}"
Dashed == [project \in ProjectNames, engine \in EngineKeys |-> project \o "-" \o engine]

tmux_session_name(project, engine) == Dashed[project, engine]

\* the directory name below FACTORY_ROOT
project_dir(project, engine) == Dashed[project, engine]

\* the log path is fixed below the project directory: it is named by the directory
log_file(project, engine) == project_dir(project, engine)

Dirs == {project_dir(p, e) : p \in ProjectNames, e \in EngineKeys}

\* what an agent appends to its log in one write: a marker, two markers the
\* second of which is COMPLETE, the first half of a marker, its second half (or
\* chatter), a marker whose phase number is no integer
Fragments == {
    <<OPEN, "PHASE", COLON, "2", COLON, "start", CLOSE>>,
    <<OPEN, "PHASE", COLON, "1", COLON, "end", COLON, "95", CLOSE, BLANK,
      OPEN, "COMPLETE", COLON, "{ok}", CLOSE>>,
    <<OPEN, "ERROR", COLON, "x">>,
    <<BLANK, CLOSE>>,
    <<OPEN, "PHASE", COLON, "x", COLON, "end", CLOSE>> }

RECURSIVE Concat(_)
Concat(fs) == IF fs = <<>> THEN <<>> ELSE Head(fs) \o Concat(Tail(fs))

\* what a read can return: the fragments written since the last read
Texts == {Concat(fs) : fs \in UNION {[1..k -> Fragments] : k \in 0..MaxWrites}}

\* the value of parse_markers(text), and of MarkerStarts(text), on each of them
parsed == [text \in Texts |-> parse_markers(text)]
starts == [text \in Texts |-> MarkerStarts(text)]

\* ------------------------------------------------------------------ state
VARIABLES
    projects,    \* projects.json: name -> project record
    sessions,    \* the tmux server: names of the sessions that exist
    dirs,        \* project directories that exist below FACTORY_ROOT
    stopFiles,   \* directories that hold the sentinel .factory-stop
    logs,        \* directory -> [exists, text]: the agent's factory-run.log
    monitors,    \* every LogMonitor object constructed, in order of construction
    registry,    \* main._monitors: <<project, engine>> -> index into monitors
    wizard,      \* user -> the user_data of a /new conversation that passed name_input
    history,     \* per monitor: what it delivered, the updates it issued, its reads
    writes,      \* number of fragments written so far
    call         \* the last direct call of a function of state.py or of
                 \* parse_markers: its name, its arguments, what it returned

vars == <<projects, sessions, dirs, stopFiles, logs, monitors, registry, wizard,
          history, writes, call>>

NoCall == [op |-> "none"]

NoWizard == [project_name |-> "", selected_engines |-> <<>>]

\* ------------------------------------------------------------- state.py
create_project(store, name, engines, created_by) ==
    [n \in DOMAIN store \cup {name} |->
        IF n = name
        THEN [engines |-> engines, status |-> "created",
              created_by |-> created_by, runs |-> <<>>]
        ELSE store[n]]

\* add_run that leaves the status of the project as it is
add_run_keeps_status(store, project_name, engine, tmux_session) ==
    LET run == [engine |-> engine, tmux_session |-> tmux_session,
                status |-> "running", phase |-> 0,
                started_at |-> Now, finished_at |-> None]
    IN  [store EXCEPT ![project_name].runs = Append(@, run)]

add_run(store, project_name, engine, tmux_session) ==
    LET run == [engine |-> engine, tmux_session |-> tmux_session,
                status |-> "running", phase |-> 0,
                started_at |-> Now, finished_at |-> None]
    IN  [store EXCEPT ![project_name].runs = Append(@, run),
                      ![project_name].status = "running"]

\* dict.update(kwargs)
DictUpdate(run, kwargs) ==
    [k \in DOMAIN run \cup DOMAIN kwargs |->
        IF k \in DOMAIN kwargs THEN kwargs[k] ELSE run[k]]

\* the run the for loop of update_run stops at: 0 when it finds none
FirstRunning(runs, engine) ==
    IF \E i \in 1..Len(runs) : runs[i].engine = engine /\ runs[i].status = "running"
    THEN CHOOSE i \in 1..Len(runs) :
            /\ runs[i].engine = engine /\ runs[i].status = "running"
            /\ \A j \in 1..(i - 1) :
                  ~(runs[j].engine = engine /\ runs[j].status = "running")
    ELSE 0

\* update_run that does not test the engine of the run
update_run_any_engine(store, project_name, engine, kwargs) ==
    LET runs == store[project_name].runs
        found == {i \in 1..Len(runs) : runs[i].status = "running"}
    IN  IF found = {} THEN store
        ELSE [store EXCEPT ![project_name].runs[CHOOSE i \in found :
                                \A j \in found : i <= j] = DictUpdate(@, kwargs)]

\* update_run that does not test the status of the run
update_run_any_status(store, project_name, engine, kwargs) ==
    LET runs == store[project_name].runs
        found == {i \in 1..Len(runs) : runs[i].engine = engine}
    IN  IF found = {} THEN store
        ELSE [store EXCEPT ![project_name].runs[CHOOSE i \in found :
                                \A j \in found : i <= j] = DictUpdate(@, kwargs)]

\* update_run that also gives the project the status of its last running run
update_run_settles_project(store, project_name, engine, kwargs) ==
    LET i == FirstRunning(store[project_name].runs, engine)
        updated == [store EXCEPT ![project_name].runs[i] = DictUpdate(@, kwargs)]
    IN  IF i = 0 THEN store
        ELSE IF \E j \in 1..Len(updated[project_name].runs) :
                   updated[project_name].runs[j].status = "running"
        THEN updated
        ELSE [updated EXCEPT ![project_name].status = kwargs.status]

update_run(store, project_name, engine, kwargs) ==
    LET i == FirstRunning(store[project_name].runs, engine)
    IN  IF i = 0 THEN store
        ELSE [store EXCEPT ![project_name].runs[i] = DictUpdate(@, kwargs)]

\* ----------------------------------------------------------- factory.py
is_session_alive(tmux, session) == session \in tmux

\* LogMonitor.__init__ followed by start(): the task exists and has not run yet
LogMonitor(project_name, engine) ==
    [project_name |-> project_name, engine |-> engine,
     stop |-> FALSE, last_pos |-> 0, task |-> "pending",
     markers |-> <<>>, idx |-> 0]

\* what is recorded about a monitor: the on_event calls it made, the statuses it
\* passed to update_run, the offsets its reads ended at, the offsets its last read
\* began and ended at, the number of stop() calls made on it
NoHistory == [delivered |-> <<>>, updates |-> <<>>, reads |-> {}, base |-> 0,
              end |-> 0, stops |-> 0]

\* the handlers act on the world w: the variables they can change
World == [projects |-> projects, sessions |-> sessions, dirs |-> dirs,
          stopFiles |-> stopFiles, monitors |-> monitors, registry |-> registry,
          history |-> history, raised |-> FALSE]

setup_project(w, project_name, engine) ==
    [w EXCEPT !.dirs = @ \cup {project_dir(project_name, engine)}]

\* start_engine that tracks the run before it creates the session
start_engine_tracks_first(w, project_name, engine, outcome) ==
    LET session == tmux_session_name(project_name, engine)
        killed == w.sessions \ {session}
        tracked == add_run(w.projects, project_name, engine, session)
    IN  CASE outcome = "new_session_failed" ->
                [w EXCEPT !.sessions = killed, !.projects = tracked,
                          !.raised = TRUE]
          [] outcome = "send_keys_failed" ->
                [w EXCEPT !.sessions = killed \cup {session}, !.projects = tracked,
                          !.raised = TRUE]
          [] OTHER ->
                [w EXCEPT !.sessions = killed \cup {session}, !.projects = tracked]

\* start_engine: tmux kill-session, new-session, send-keys, then state.add_run;
\* outcome names the subprocess.run(check=True) that fails, if one does
start_engine(w, project_name, engine, outcome) ==
    LET session == tmux_session_name(project_name, engine)
        killed == w.sessions \ {session}
    IN  CASE outcome = "new_session_failed" ->
                [w EXCEPT !.sessions = killed, !.raised = TRUE]
          [] outcome = "send_keys_failed" ->
                [w EXCEPT !.sessions = killed \cup {session}, !.raised = TRUE]
          [] OTHER ->
                [w EXCEPT !.sessions = killed \cup {session},
                          !.projects = add_run(@, project_name, engine, session)]

\* monitor = LogMonitor(...); monitor.start(); _monitors[(name, engine)] = monitor
start_monitor(w, project_name, engine) ==
    LET key == <<project_name, engine>>
        id == Len(w.monitors) + 1
    IN  [w EXCEPT !.monitors = Append(@, LogMonitor(project_name, engine)),
                  !.history = Append(@, NoHistory),
                  !.registry = [k \in DOMAIN @ \cup {key} |->
                                   IF k = key THEN id ELSE @[k]]]

\* stop() that sets the flag and does not cancel the task
stop_flag_only(mon) == [mon EXCEPT !.stop = TRUE]

\* stop() whose cancel() is lost on a task that awaits the observer
stop_spares_observer(mon) ==
    [mon EXCEPT !.stop = TRUE,
                !.task = IF @ \in {"pending", "sleep"} THEN "cancelled" ELSE @]

\* LogMonitor.stop(): the flag, and task.cancel() when a task exists; a task that
\* has not ended is cancelled at the await it is suspended at
stop(mon) ==
    [mon EXCEPT !.stop = TRUE,
                !.task = IF @ \in {"pending", "sleep", "await_died", "await_marker"}
                         THEN "cancelled" ELSE @]

\* stop_engine that marks the last Run of the engine stopped, whatever its status
stop_engine_marks_last(w, project_name, engine) ==
    LET dir == project_dir(project_name, engine)
        runs == w.projects[project_name].runs
        own == {i \in 1..Len(runs) : runs[i].engine = engine}
        last == CHOOSE i \in own : \A j \in own : j <= i
    IN  IF dir \notin w.dirs THEN [w EXCEPT !.raised = TRUE]
        ELSE [w EXCEPT
                !.stopFiles = @ \cup {dir},
                !.sessions = @ \ {tmux_session_name(project_name, engine)},
                !.projects = IF own = {} THEN @
                             ELSE [@ EXCEPT ![project_name].runs[last] =
                                     DictUpdate(@, [status |-> "stopped",
                                                    finished_at |-> Now])]]

\* stop_engine that kills the session and leaves no sentinel
stop_engine_no_sentinel(w, project_name, engine) ==
    LET dir == project_dir(project_name, engine)
    IN  IF dir \notin w.dirs THEN [w EXCEPT !.raised = TRUE]
        ELSE [w EXCEPT
                !.sessions = @ \ {tmux_session_name(project_name, engine)},
                !.projects = update_run(@, project_name, engine,
                                 [status |-> "stopped", finished_at |-> Now])]

\* stop_engine: touch the sentinel (FileNotFoundError when the directory is
\* missing), kill the session, state.update_run(status="stopped")
stop_engine(w, project_name, engine) ==
    LET dir == project_dir(project_name, engine)
    IN  IF dir \notin w.dirs THEN [w EXCEPT !.raised = TRUE]
        ELSE [w EXCEPT
                !.stopFiles = @ \cup {dir},
                !.sessions = @ \ {tmux_session_name(project_name, engine)},
                !.projects = update_run(@, project_name, engine,
                                 [status |-> "stopped", finished_at |-> Now])]

\* what stop_engine returns: result.returncode == 0 of tmux kill-session, which
\* succeeds when the session exists
stop_engine_returns(w, project_name, engine) ==
    is_session_alive(w.sessions, tmux_session_name(project_name, engine))

\* -------------------------------------------------------------- main.py
\* how a handler's loop over the engines can end: every start_engine returns, or
\* the start_engine of engine number failAt raises CalledProcessError
Outcomes(engines) ==
    {[failAt |-> 0, kind |-> "ok"]}
    \cup {[failAt |-> i, kind |-> k] :
            i \in 1..Len(engines), k \in {"new_session_failed", "send_keys_failed"}}

AllOutcomes == UNION {Outcomes(es) : es \in EngineChoices}

OutcomeAt(outcome, i) == IF outcome.failAt = i THEN outcome.kind ELSE "ok"

\* the for loop of confirm_callback (always = TRUE) and of cmd_factory (always =
\* FALSE: setup_project only when the directory is missing), from engine i on
RECURSIVE StartLoop(_, _, _, _, _, _)
StartLoop(w, name, engines, i, outcome, always) ==
    IF i > Len(engines) \/ w.raised THEN w
    ELSE LET engine == engines[i]
             w1 == IF always \/ project_dir(name, engine) \notin w.dirs
                   THEN setup_project(w, name, engine) ELSE w
             w2 == start_engine(w1, name, engine, OutcomeAt(outcome, i))
             w3 == IF w2.raised THEN w2 ELSE start_monitor(w2, name, engine)
         IN  StartLoop(w3, name, engines, i + 1, outcome, always)

\* the for loop of cmd_stop, from engine i on
RECURSIVE StopLoop(_, _, _, _)
StopLoop(w, name, engines, i) ==
    IF i > Len(engines) \/ w.raised THEN w
    ELSE LET engine == engines[i]
             key == <<name, engine>>
             w1 == IF key \in DOMAIN w.registry
                   THEN [w EXCEPT
                           !.monitors[w.registry[key]] = stop(@),
                           !.history[w.registry[key]].stops = @ + 1,
                           !.registry = [k \in DOMAIN @ \ {key} |-> @[k]]]
                   ELSE w
             w2 == stop_engine(w1, name, engine)
         IN  StopLoop(w2, name, engines, i + 1)

\* a handler has run and left the world w
Becomes(w) ==
    /\ projects' = w.projects
    /\ sessions' = w.sessions
    /\ dirs' = w.dirs
    /\ stopFiles' = w.stopFiles
    /\ monitors' = w.monitors
    /\ registry' = w.registry
    /\ history' = w.history

\* name_input: the name is valid and not in the store; the wizard goes on
name_input(user, name, engines) ==
    /\ wizard[user] = NoWizard
    /\ name \notin DOMAIN projects
    /\ wizard' = [wizard EXCEPT ![user] =
                     [project_name |-> name, selected_engines |-> engines]]
    /\ UNCHANGED <<projects, sessions, dirs, stopFiles, logs, monitors, registry,
                   history, writes, call>>

\* confirm_callback with action "yes"
confirm_callback(user, outcome) ==
    /\ wizard[user] # NoWizard
    /\ LET name == wizard[user].project_name
           engines == wizard[user].selected_engines
           w0 == [World EXCEPT
                    !.projects = create_project(@, name, engines, user)]
       IN  /\ outcome \in Outcomes(engines)
           /\ Len(monitors) + Len(engines) <= MaxMonitors
           /\ Becomes(StartLoop(w0, name, engines, 1, outcome, TRUE))
    /\ wizard' = [wizard EXCEPT ![user] = NoWizard]
    /\ UNCHANGED <<logs, writes, call>>

\* cmd_factory <name>
cmd_factory(name, outcome) ==
    /\ name \in DOMAIN projects
    /\ LET engines == projects[name].engines
       IN  /\ outcome \in Outcomes(engines)
           /\ Len(monitors) + Len(engines) <= MaxMonitors
           /\ Becomes(StartLoop(World, name, engines, 1, outcome, FALSE))
    /\ UNCHANGED <<logs, wizard, writes, call>>

\* cmd_stop <name>
cmd_stop(name) ==
    /\ name \in DOMAIN projects
    /\ Becomes(StopLoop(World, name, projects[name].engines, 1))
    /\ UNCHANGED <<logs, wizard, writes, call>>

\* ------------------------------------------------------ the environment
\* the agent of a live session appends to its log (and creates it)
AgentWrite(project, engine, fragment) ==
    /\ writes < MaxWrites
    /\ tmux_session_name(project, engine) \in sessions
    /\ project_dir(project, engine) \in dirs
    /\ logs' = [logs EXCEPT ![log_file(project, engine)] =
                   [exists |-> TRUE, text |-> @.text \o fragment]]
    /\ writes' = writes + 1
    /\ UNCHANGED <<projects, sessions, dirs, stopFiles, monitors, registry, wizard,
                   history, call>>

\* a session ends by itself or is killed from outside the bot
SessionExit(session) ==
    /\ session \in sessions
    /\ sessions' = sessions \ {session}
    /\ UNCHANGED <<projects, dirs, stopFiles, logs, monitors, registry, wizard,
                   history, writes, call>>

\* ------------------------------------------- LogMonitor._monitor_loop
\* a loop that never tests the flag
loop_forever(mon) == [mon EXCEPT !.task = "sleep"]

\* the test of "while not self._stop": the task sleeps again or returns
loop_test(mon) == [mon EXCEPT !.task = IF mon.stop THEN "done" ELSE "sleep"]

\* f.seek(self._last_pos); new_content = f.read(); f.tell()
read_log(mon, text) ==
    [new_content |-> SubSeq(text, mon.last_pos + 1, Len(text)),
     tell |-> Len(text)]

\* the offset is not stored
advance_not(mon, tell) == mon

\* the offset moves on by one position whatever was read
advance_by_one(mon, tell) == [mon EXCEPT !.last_pos = @ + 1]

\* self._last_pos = f.tell()
advance(mon, tell) == [mon EXCEPT !.last_pos = tell]

\* marker["project"] = ...; marker["engine"] = ...
tagged(mon, marker) ==
    DictUpdate(marker, [project |-> mon.project_name, engine |-> mon.engine])

session_died(mon) ==
    [type |-> "session_died", project |-> mon.project_name, engine |-> mon.engine]

\* on_event(event) is called: the observer has the event from here on;
\* at is the position in the log of the marker behind it (0: not from the log),
\* raised whether the call ended in an exception
delivered_to(h, event, at) ==
    [h EXCEPT !.delivered = Append(@, [event |-> event, at |-> at,
                                       raised |-> FALSE])]

\* position in the log of marker number i of the batch read from base to end
marker_at(text, base, end, i) ==
    base + starts[SubSeq(text, base + 1, end)][i]

\* the task is scheduled for the first time: it tests the loop condition
MonitorBegin(m) ==
    /\ m \in 1..Len(monitors)
    /\ monitors[m].task = "pending"
    /\ monitors' = [monitors EXCEPT ![m] = loop_test(@)]
    /\ UNCHANGED <<projects, sessions, dirs, stopFiles, logs, registry, wizard,
                   history, writes, call>>

\* tick_read that leaves the loop when the log is missing or cannot be read
tick_read_breaks(mon, h, log, oserror) ==
    LET r == read_log(mon, log.text)
        mon1 == advance(mon, r.tell)
        h1 == [h EXCEPT !.reads = @ \cup {r.tell}, !.base = mon.last_pos,
                        !.end = r.tell]
        p == parsed[r.new_content]
    IN  IF ~log.exists \/ oserror THEN [mon |-> [mon EXCEPT !.task = "done"], h |-> h]
        ELSE IF r.new_content = <<>> THEN [mon |-> loop_test(mon1), h |-> h1]
        ELSE IF p.raised THEN [mon |-> [mon1 EXCEPT !.task = "failed"], h |-> h1]
        ELSE IF p.markers = <<>> THEN [mon |-> loop_test(mon1), h |-> h1]
        ELSE [mon |-> [mon1 EXCEPT !.task = "await_marker",
                                   !.markers = p.markers, !.idx = 1],
              h |-> delivered_to(h1, tagged(mon, p.markers[1]),
                        marker_at(log.text, mon.last_pos, r.tell, 1))]

\* the part of one iteration that reads the log: from "if not log_path.exists()"
\* to the first on_event of the for loop
tick_read(mon, h, log, oserror) ==
    LET r == read_log(mon, log.text)
        mon1 == advance(mon, r.tell)
        h1 == [h EXCEPT !.reads = @ \cup {r.tell}, !.base = mon.last_pos,
                        !.end = r.tell]
        p == parsed[r.new_content]
    IN  IF ~log.exists \/ oserror THEN [mon |-> loop_test(mon), h |-> h]
        ELSE IF r.new_content = <<>> THEN [mon |-> loop_test(mon1), h |-> h1]
        ELSE IF p.raised THEN [mon |-> [mon1 EXCEPT !.task = "failed"], h |-> h1]
        ELSE IF p.markers = <<>> THEN [mon |-> loop_test(mon1), h |-> h1]
        ELSE [mon |-> [mon1 EXCEPT !.task = "await_marker",
                                   !.markers = p.markers, !.idx = 1],
              h |-> delivered_to(h1, tagged(mon, p.markers[1]),
                        marker_at(log.text, mon.last_pos, r.tell, 1))]

\* tick with the log read before the liveness check whenever it holds unread text
tick_log_first(mon, h, alive, log, oserror) ==
    IF ~alive /\ ~(log.exists /\ Len(log.text) > mon.last_pos)
    THEN [mon |-> [mon EXCEPT !.task = "await_died"],
          h |-> delivered_to(h, session_died(mon), 0)]
    ELSE tick_read(mon, h, log, FALSE)

\* the sleep is over: one iteration up to its first await (or to the next sleep)
tick(mon, h, alive, log, oserror) ==
    IF ~alive
    THEN [mon |-> [mon EXCEPT !.task = "await_died"],
          h |-> delivered_to(h, session_died(mon), 0)]
    ELSE tick_read(mon, h, log, oserror)

MonitorTick(m, oserror) ==
    /\ m \in 1..Len(monitors)
    /\ monitors[m].task = "sleep"
    /\ LET mon == monitors[m]
           log == logs[log_file(mon.project_name, mon.engine)]
           alive == is_session_alive(sessions,
                        tmux_session_name(mon.project_name, mon.engine))
           t == tick(mon, history[m], alive, log, oserror)
       IN  /\ oserror => (alive /\ log.exists)
           /\ monitors' = [monitors EXCEPT ![m] = t.mon]
           /\ history' = [history EXCEPT ![m] = t.h]
    /\ UNCHANGED <<projects, sessions, dirs, stopFiles, logs, registry, wizard,
                   writes, call>>

\* the update without the finish timestamp
finish_run_status_only(store, mon, status) ==
    update_run(store, mon.project_name, mon.engine, [status |-> status])

\* state.update_run(project, engine, status=..., finished_at=time.time())
finish_run(store, mon, status) ==
    update_run(store, mon.project_name, mon.engine,
               [status |-> status, finished_at |-> Now])

\* after_died that records the run as stopped
after_died_stopped(mon, h, store) ==
    [mon |-> [mon EXCEPT !.task = "done"],
     h |-> [h EXCEPT !.updates = Append(@, "stopped")],
     store |-> finish_run(store, mon, "stopped")]

\* after_died without the break: the loop goes on
after_died_no_break(mon, h, store) ==
    [mon |-> loop_test(mon),
     h |-> [h EXCEPT !.updates = Append(@, "failed")],
     store |-> finish_run(store, mon, "failed")]

\* after_died that records the run as failed and then as completed
after_died_both(mon, h, store) ==
    [mon |-> [mon EXCEPT !.task = "done"],
     h |-> [h EXCEPT !.updates = @ \o <<"failed", "completed">>],
     store |-> finish_run(finish_run(store, mon, "failed"), mon, "completed")]

\* after "await self.on_event({type: session_died})" has returned
after_died(mon, h, store) ==
    [mon |-> [mon EXCEPT !.task = "done"],
     h |-> [h EXCEPT !.updates = Append(@, "failed")],
     store |-> finish_run(store, mon, "failed")]

\* after_marker without the break that follows a complete marker
after_marker_no_break(mon, h, store, text) ==
    LET done == mon.markers[mon.idx].type = "complete"
        mon1 == IF done THEN [mon EXCEPT !.stop = TRUE] ELSE mon
        h1 == IF done THEN [h EXCEPT !.updates = Append(@, "completed")] ELSE h
        store1 == IF done THEN finish_run(store, mon, "completed") ELSE store
    IN  IF mon.idx < Len(mon.markers)
        THEN [mon |-> [mon1 EXCEPT !.idx = @ + 1],
              h |-> delivered_to(h1, tagged(mon, mon.markers[mon.idx + 1]),
                        marker_at(text, h.base, h.end, mon.idx + 1)),
              store |-> store1]
        ELSE [mon |-> loop_test(mon1), h |-> h1, store |-> store1]

\* after_marker that writes the phase of a phase marker to the run
after_marker_sets_phase(mon, h, store, text) ==
    LET marker == mon.markers[mon.idx]
        store1 == IF marker.type = "phase"
                  THEN update_run(store, mon.project_name, mon.engine,
                                  [phase |-> marker.phase])
                  ELSE store
    IN  IF marker.type = "complete"
        THEN [mon |-> loop_test([mon EXCEPT !.stop = TRUE]),
              h |-> [h EXCEPT !.updates = Append(@, "completed")],
              store |-> finish_run(store, mon, "completed")]
        ELSE IF mon.idx < Len(mon.markers)
        THEN [mon |-> [mon EXCEPT !.idx = @ + 1],
              h |-> delivered_to(h, tagged(mon, mon.markers[mon.idx + 1]),
                        marker_at(text, h.base, h.end, mon.idx + 1)),
              store |-> store1]
        ELSE [mon |-> loop_test(mon), h |-> h, store |-> store1]

\* after_marker that leaves the for loop after every marker
after_marker_first_only(mon, h, store, text) ==
    IF mon.markers[mon.idx].type = "complete"
    THEN [mon |-> loop_test([mon EXCEPT !.stop = TRUE]),
          h |-> [h EXCEPT !.updates = Append(@, "completed")],
          store |-> finish_run(store, mon, "completed")]
    ELSE [mon |-> loop_test(mon), h |-> h, store |-> store]

\* the rest of the for loop body once on_event(marker) is over, up to the next await
after_marker(mon, h, store, text) ==
    IF mon.markers[mon.idx].type = "complete"
    THEN [mon |-> loop_test([mon EXCEPT !.stop = TRUE]),
          h |-> [h EXCEPT !.updates = Append(@, "completed")],
          store |-> finish_run(store, mon, "completed")]
    ELSE IF mon.idx < Len(mon.markers)
    THEN [mon |-> [mon EXCEPT !.idx = @ + 1],
          h |-> delivered_to(h, tagged(mon, mon.markers[mon.idx + 1]),
                    marker_at(text, h.base, h.end, mon.idx + 1)),
          store |-> store]
    ELSE [mon |-> loop_test(mon), h |-> h, store |-> store]

\* what follows the await of on_event when the observer returns
resume(mon, h, store, text) ==
    IF mon.task = "await_died" THEN after_died(mon, h, store)
    ELSE after_marker(mon, h, store, text)

\* what follows the await of on_event when the observer raises an Exception:
\* the call for session_died is outside any try, the call for a marker inside one
resume_raised(mon, h, store, text) ==
    IF mon.task = "await_died"
    THEN [mon |-> [mon EXCEPT !.task = "failed"], h |-> h, store |-> store]
    ELSE after_marker(mon, h, store, text)

Resumes(m, r) ==
    /\ monitors' = [monitors EXCEPT ![m] = r.mon]
    /\ history' = [history EXCEPT ![m] = r.h]
    /\ projects' = r.store
    /\ UNCHANGED <<sessions, dirs, stopFiles, logs, registry, wizard, writes, call>>

\* main._handle_factory_event returns: every send is inside try/except Exception
ObserverReturn(m) ==
    /\ m \in 1..Len(monitors)
    /\ monitors[m].task \in {"await_died", "await_marker"}
    /\ LET mon == monitors[m]
       IN  Resumes(m, resume(mon, history[m], projects,
                             logs[log_file(mon.project_name, mon.engine)].text))

\* an observer other than main._handle_factory_event raises
ObserverRaise(m) ==
    /\ m \in 1..Len(monitors)
    /\ monitors[m].task \in {"await_died", "await_marker"}
    /\ LET mon == monitors[m]
           h == [history[m] EXCEPT !.delivered[Len(history[m].delivered)].raised = TRUE]
       IN  Resumes(m, resume_raised(mon, h, projects,
                          logs[log_file(mon.project_name, mon.engine)].text))

\* ------------------------------------------ LogMonitor driven by any caller
\* LogMonitor(project, engine, on_event) without start()
ApiConstruct(project, engine) ==
    /\ Len(monitors) < MaxMonitors
    /\ project \in DOMAIN projects
    /\ \E i \in 1..Len(projects[project].engines) :
          projects[project].engines[i] = engine
    /\ monitors' = Append(monitors,
                     [LogMonitor(project, engine) EXCEPT !.task = "none"])
    /\ history' = Append(history, NoHistory)
    /\ UNCHANGED <<projects, sessions, dirs, stopFiles, logs, registry, wizard,
                   writes, call>>

\* LogMonitor.start() on a monitor that has no task yet
ApiStart(m) ==
    /\ m \in 1..Len(monitors)
    /\ monitors[m].task = "none"
    /\ monitors' = [monitors EXCEPT ![m] =
                      [@ EXCEPT !.stop = FALSE, !.last_pos = 0, !.task = "pending"]]
    /\ UNCHANGED <<projects, sessions, dirs, stopFiles, logs, registry, wizard,
                   history, writes, call>>

\* LogMonitor.stop(), at any time and any number of times
ApiStop(m) ==
    /\ m \in 1..Len(monitors)
    /\ history[m].stops < MaxStops
    /\ monitors' = [monitors EXCEPT ![m] = stop(@)]
    /\ history' = [history EXCEPT ![m].stops = @ + 1]
    /\ UNCHANGED <<projects, sessions, dirs, stopFiles, logs, registry, wizard,
                   writes, call>>

\* ------------------------------------------ state.py called by any caller
\* the names and the keyword arguments the store is called with
StoreNames == {"p1", "p2"}
StoreSessions == {"s1"}
StoreKwargs == {[status |-> st, finished_at |-> Now] :
                   st \in {"completed", "failed", "stopped"}}

\* projects[project_name] raises KeyError
KeyError(store, project_name) == project_name \notin DOMAIN store

\* add_run that creates the project it does not find
add_run_setdefault(store, project_name, engine, tmux_session) ==
    [store |-> add_run(IF KeyError(store, project_name)
                       THEN create_project(store, project_name, <<>>, None)
                       ELSE store,
                       project_name, engine, tmux_session),
     raised |-> FALSE]

\* add_run as its caller sees it: the KeyError leaves before save_projects
try_add_run(store, project_name, engine, tmux_session) ==
    IF KeyError(store, project_name) THEN [store |-> store, raised |-> TRUE]
    ELSE [store |-> add_run(store, project_name, engine, tmux_session),
          raised |-> FALSE]

\* update_run as its caller sees it
try_update_run(store, project_name, engine, kwargs) ==
    IF KeyError(store, project_name) THEN [store |-> store, raised |-> TRUE]
    ELSE [store |-> update_run(store, project_name, engine, kwargs),
          raised |-> FALSE]

RECURSIVE SumRuns(_, _)
SumRuns(store, names) ==
    IF names = {} THEN 0
    ELSE LET n == CHOOSE x \in names : TRUE
         IN  Len(store[n].runs) + SumRuns(store, names \ {n})

Called(op, args, raised) ==
    /\ call' = [op |-> op, args |-> args, raised |-> raised, before |-> projects]
    /\ UNCHANGED <<sessions, dirs, stopFiles, logs, monitors, registry, wizard,
                   history, writes>>

StoreCreateProject(name, engines, created_by) ==
    /\ projects' = create_project(projects, name, engines, created_by)
    /\ Called("create_project", [name |-> name, engines |-> engines], FALSE)

StoreAddRun(project_name, engine, tmux_session) ==
    /\ SumRuns(projects, DOMAIN projects) < MaxRuns
    /\ LET r == try_add_run(projects, project_name, engine, tmux_session)
       IN  /\ projects' = r.store
           /\ Called("add_run", [project_name |-> project_name, engine |-> engine,
                                 tmux_session |-> tmux_session], r.raised)

StoreUpdateRun(project_name, engine, kwargs) ==
    /\ LET r == try_update_run(projects, project_name, engine, kwargs)
       IN  /\ projects' = r.store
           /\ Called("update_run", [project_name |-> project_name,
                                    engine |-> engine, kwargs |-> kwargs], r.raised)

\* ------------------------------------- factory.py called as main.py calls it
\* the world before a call, as the call record keeps it
Before == [projects |-> projects, sessions |-> sessions, dirs |-> dirs,
           stopFiles |-> stopFiles]

\* setup_project when the directory is missing, then start_engine, on a project
\* of the store (confirm_callback, cmd_factory)
EngineStart(project_name, engine, outcome) ==
    /\ project_name \in DOMAIN projects
    /\ SumRuns(projects, DOMAIN projects) < MaxRuns
    /\ LET w == start_engine(setup_project(World, project_name, engine),
                             project_name, engine, outcome)
       IN  /\ Becomes(w)
           /\ call' = [op |-> "start_engine",
                       args |-> [project_name |-> project_name, engine |-> engine,
                                 outcome |-> outcome],
                       raised |-> w.raised, before |-> Before]
    /\ UNCHANGED <<logs, wizard, writes>>

\* stop_engine on a project of the store (cmd_stop)
EngineStop(project_name, engine) ==
    /\ project_name \in DOMAIN projects
    /\ LET w == stop_engine(World, project_name, engine)
       IN  /\ Becomes(w)
           /\ call' = [op |-> "stop_engine",
                       args |-> [project_name |-> project_name, engine |-> engine],
                       raised |-> w.raised,
                       returned |-> ~w.raised
                                    /\ stop_engine_returns(World, project_name, engine),
                       before |-> Before]
    /\ UNCHANGED <<logs, wizard, writes>>

\* ----------------------------------------------------------- behaviours
Constructed ==
    /\ projects = <<>>
    /\ sessions = {}
    /\ dirs = {}
    /\ stopFiles = {}
    /\ logs = [d \in Dirs |-> [exists |-> FALSE, text |-> <<>>]]
    /\ monitors = <<>>
    /\ registry = <<>>
    /\ wizard = [u \in Users |-> NoWizard]
    /\ history = <<>>
    /\ writes = 0

Init == Constructed /\ call = NoCall

\* ---------------------------------------- parse_markers called on a text
\* well-formed markers of known and of unknown TYPE, and chatter
ParsePieces == {
    <<OPEN, "PHASE", COLON, "1", COLON, "start", CLOSE>>,
    <<OPEN, "ERROR", COLON, "x", CLOSE>>,
    <<OPEN, "COST", COLON, "0.5", CLOSE>>,
    <<OPEN, "COMPLETE", CLOSE>>,
    <<OPEN, "DEBUG", COLON, "x", CLOSE>>,
    <<OPEN, "complete", COLON, "{ok}", CLOSE>>,
    <<OPEN, "DEBUG", CLOSE>>,
    <<"x", BLANK, NL>> }

ParseInputs == UNION {[1..k -> ParsePieces] : k \in 0..MaxPieces}

InitParse ==
    /\ Constructed
    /\ call \in {[op |-> "text", args |-> [pieces |-> ps]] : ps \in ParseInputs}

ParseCall ==
    /\ call.op = "text"
    /\ call' = [op |-> "parse_markers", args |-> call.args,
                result |-> parse_markers(Concat(call.args.pieces))]
    /\ UNCHANGED <<projects, sessions, dirs, stopFiles, logs, monitors, registry,
                   wizard, history, writes>>

SpecParse == InitParse /\ [][ParseCall]_vars

\* markers whose payloads are well formed, malformed or missing
PayloadPieces == {
    <<OPEN, "PHASE", COLON, "1", COLON, "start", CLOSE>>,
    <<OPEN, "PHASE", COLON, "x", COLON, "end", CLOSE>>,
    <<OPEN, "PHASE", COLON, "2", CLOSE>>,
    <<OPEN, "PHASE", CLOSE>>,
    <<OPEN, "COST", COLON, "0.5", COLON, "openai", CLOSE>>,
    <<OPEN, "COST", COLON, "1", CLOSE>>,
    <<OPEN, "COST", CLOSE>>,
    <<OPEN, "COST", COLON, "x", COLON, "openai", CLOSE>>,
    <<OPEN, "CLARIFY", COLON, "{ok}", CLOSE>>,
    <<OPEN, "CLARIFY", COLON, "x", COLON, "end", CLOSE>>,
    <<OPEN, "CLARIFY", CLOSE>>,
    <<OPEN, "COMPLETE", COLON, "{ok}", CLOSE>>,
    <<OPEN, "COMPLETE", COLON, "x", CLOSE>>,
    <<OPEN, "ERROR", COLON, "x", CLOSE>> }

PayloadInputs == UNION {[1..k -> PayloadPieces] : k \in 0..MaxPieces}

InitPayload ==
    /\ Constructed
    /\ call \in {[op |-> "text", args |-> [pieces |-> ps]] : ps \in PayloadInputs}

\* parse_markers called on texts of markers with every kind of payload
SpecPayload == InitPayload /\ [][ParseCall]_vars

\* the /new conversations of the users U, who select one of the engine lists EC
Wizard(U, EC) ==
    \/ \E u \in U, n \in ProjectNames, es \in EC : name_input(u, n, es)
    \/ \E u \in U, o \in AllOutcomes : confirm_callback(u, o)

Commands ==
    \/ \E n \in ProjectNames, o \in AllOutcomes : cmd_factory(n, o)
    \/ \E n \in ProjectNames : cmd_stop(n)

Environment ==
    \/ \E p \in ProjectNames, e \in EngineKeys, f \in Fragments : AgentWrite(p, e, f)
    \/ \E p \in ProjectNames, e \in EngineKeys : SessionExit(tmux_session_name(p, e))

MonitorStep ==
    \/ \E m \in 1..MaxMonitors : MonitorBegin(m)
    \/ \E m \in 1..MaxMonitors, oserror \in BOOLEAN : MonitorTick(m, oserror)
    \/ \E m \in 1..MaxMonitors : ObserverReturn(m)

\* the bot as main.py wires it, with one user
Next == Wizard({"u1"}, EngineChoices) \/ Commands \/ Environment \/ MonitorStep

Spec == Init /\ [][Next]_vars

\* the event loop runs every task that is ready: the sleep ends, the observer
\* returns
Fairness ==
    \A m \in 1..MaxMonitors :
       WF_vars(MonitorBegin(m) \/ (\E oserror \in BOOLEAN : MonitorTick(m, oserror))
               \/ ObserverReturn(m))

SpecLive == Init /\ [][Next]_vars /\ Fairness

\* LogMonitor with an observer that may raise, on projects of one engine
NextObs ==
    \/ Wizard({"u1"}, {<<"claude">>}) \/ Environment \/ MonitorStep
    \/ \E m \in 1..MaxMonitors : ObserverRaise(m)

SpecObs == Init /\ [][NextObs]_vars

\* LogMonitor constructed, started and stopped by any caller
ApiStep ==
    \/ \E p \in ProjectNames, e \in EngineKeys : ApiConstruct(p, e)
    \/ \E m \in 1..MaxMonitors : ApiStart(m)
    \/ \E m \in 1..MaxMonitors : ApiStop(m)

NextApi == Wizard({"u1"}, {<<"claude">>}) \/ Environment \/ MonitorStep \/ ApiStep

SpecApi == Init /\ [][NextApi]_vars

\* the store of state.py, called in any order
NextStore ==
    \/ \E n \in StoreNames, es \in EngineChoices : StoreCreateProject(n, es, "u1")
    \/ \E n \in StoreNames, e \in EngineKeys, t \in StoreSessions :
          StoreAddRun(n, e, t)
    \/ \E n \in StoreNames, e \in EngineKeys, kw \in StoreKwargs :
          StoreUpdateRun(n, e, kw)

SpecStore == Init /\ [][NextStore]_vars

\* ------------------------------------------ names spelled out in lexemes
\* the lexemes a typed project name is made of here: a letter, a digit, the
\* hyphen, and a word that is also the key of an engine
NameLexemes == {"a", "1", "-", "claude"}

\* len() of a lexeme, in characters
CharLen(tok) == IF tok = "claude" THEN 6 ELSE 1

RECURSIVE TextLen(_)
TextLen(text) == IF text = <<>> THEN 0 ELSE CharLen(Head(text)) + TextLen(Tail(text))

\* name_input: re.match(r"^[a-z][a-z0-9-]*[a-z0-9]$", name) and len(name) >= 3
ValidName(name) ==
    /\ name # <<>>
    /\ Head(name) \in {"a", "claude"}
    /\ name[Len(name)] \in {"a", "1", "claude"}
    /\ TextLen(name) >= 3

\* a registry with an engine whose key has a hyphen in it
ENGINES_hyphenated ==
    {<<"claude">>, <<"gemini">>, <<"opencode">>, <<"aider">>,
     <<"claude", "-", "claude">>}

\* the keys of ENGINES
ENGINES == {<<"claude">>, <<"gemini">>, <<"opencode">>, <<"aider">>}

\* f"{project}-{engine}": the session name, and the directory below FACTORY_ROOT
SessionText(project, engine) == project \o <<"-">> \o engine
DirText(project, engine) == project \o <<"-">> \o engine

\* the names that name_input accepts, of at most MaxNameLen lexemes
AcceptedNames ==
    {n \in UNION {[1..k -> NameLexemes] : k \in 1..MaxNameLen} : ValidName(n)}

NamePairs == AcceptedNames \X ENGINES

InitNames ==
    /\ Constructed
    /\ call \in {[op |-> "pairs", args |-> [a |-> a, b |-> b]] :
                    a \in NamePairs, b \in NamePairs}

\* the session names and the directories of two (project, engine) pairs
NamesCall ==
    /\ call.op = "pairs"
    /\ call' = [op |-> "names", args |-> call.args,
                result |->
                   [a |-> [session |-> SessionText(call.args.a[1], call.args.a[2]),
                           dir |-> DirText(call.args.a[1], call.args.a[2])],
                    b |-> [session |-> SessionText(call.args.b[1], call.args.b[2]),
                           dir |-> DirText(call.args.b[1], call.args.b[2])]]]
    /\ UNCHANGED <<projects, sessions, dirs, stopFiles, logs, monitors, registry,
                   wizard, history, writes>>

SpecNames == InitNames /\ [][NamesCall]_vars

\* ------------------------------------------------- the process restarts
\* the bot process ends and main() runs again: the tasks of the event loop are
\* gone with the process (task "gone"), _monitors is the empty dict of the module
\* and the conversations start over; the store, the tmux sessions, the
\* directories and the logs are outside the process and stay
Restart ==
    /\ monitors' = [m \in 1..Len(monitors) |->
                      [monitors[m] EXCEPT
                         !.task = IF @ \in {"pending", "sleep", "await_died",
                                            "await_marker"}
                                  THEN "gone" ELSE @]]
    /\ registry' = <<>>
    /\ wizard' = [u \in Users |-> NoWizard]
    /\ UNCHANGED <<projects, sessions, dirs, stopFiles, logs, history, writes, call>>

\* the bot with restarts of its process
NextRestart == Next \/ Restart

SpecRestart == Init /\ [][NextRestart]_vars

\* the engines of the projects of the store, started and stopped in any order
NextEngine ==
    \/ \E n \in ProjectNames, es \in EngineChoices : StoreCreateProject(n, es, "u1")
    \/ \E n \in ProjectNames, e \in EngineKeys,
          o \in {"ok", "new_session_failed", "send_keys_failed"} :
          EngineStart(n, e, o)
    \/ \E n \in ProjectNames, e \in EngineKeys : EngineStop(n, e)
    \/ \E n \in ProjectNames, e \in EngineKeys : SessionExit(tmux_session_name(n, e))

SpecEngine == Init /\ [][NextEngine]_vars

\* ------------------------------------------------------------- the claims
Mons == 1..Len(monitors)

SessionOf(m) == tmux_session_name(monitors[m].project_name, monitors[m].engine)

LogOf(m) == logs[log_file(monitors[m].project_name, monitors[m].engine)]

RunsOf(m) == projects[monitors[m].project_name].runs

\* the run an update_run issued by monitor m applies to, 0 when there is none
TargetRun(m) == FirstRunning(RunsOf(m), monitors[m].engine)

\* the last on_event call of monitor m was for an event of this type
LastDelivered(m, type) ==
    /\ history[m].delivered # <<>>
    /\ history[m].delivered[Len(history[m].delivered)].event.type = type

\* the text monitor m has not read yet
Unread(m) == SubSeq(LogOf(m).text, monitors[m].last_pos + 1, Len(LogOf(m).text))

HasComplete(markers) == \E i \in 1..Len(markers) : markers[i].type = "complete"

\* monitor m takes a step of its own loop
Steps(m) ==
    /\ monitors'[m] # monitors[m]
    /\ monitors'[m].task \notin {"cancelled", "pending"}
    /\ monitors[m].task # "none"

\* update_run(status) takes effect in this step on the run monitor m targets
RunBecomes(m, status) ==
    /\ TargetRun(m) # 0 =>
          /\ RunsOf(m)'[TargetRun(m)].status = status
          /\ RunsOf(m)'[TargetRun(m)].finished_at = Now
    /\ \A i \in 1..Len(RunsOf(m)) :
          i # TargetRun(m) => RunsOf(m)'[i] = RunsOf(m)[i]

\* C1: liveness priority. A tick that finds the session gone calls on_event with
\* session_died and nothing else, and reads nothing (offset and log-derived
\* deliveries unchanged); when that call returns the targeted run becomes failed;
\* a monitor that has reported session_died never issues "completed" and delivers
\* nothing after it, whatever unread text its log holds.
C1_TickOfDeadSession ==
    \A m \in Mons :
       (monitors[m].task = "sleep" /\ ~is_session_alive(sessions, SessionOf(m))
            /\ Steps(m))
       => /\ monitors'[m] = [monitors[m] EXCEPT !.task = "await_died"]
          /\ history'[m] = delivered_to(history[m], session_died(monitors[m]), 0)
          /\ projects' = projects

C1_DiedThenFailed ==
    \A m \in Mons :
       (monitors[m].task = "await_died" /\ Steps(m))
       => /\ monitors'[m].task = "done"
          /\ history'[m].updates = Append(history[m].updates, "failed")
          /\ history'[m].delivered = history[m].delivered
          /\ RunBecomes(m, "failed")

C1_NothingAfterDied ==
    \A m \in Mons :
       \A i \in 1..Len(history[m].delivered) :
          history[m].delivered[i].event.type = "session_died"
          => /\ i = Len(history[m].delivered)
             /\ monitors[m].task \in {"await_died", "done", "cancelled"}
             /\ history[m].updates \in {<<>>, <<"failed">>}

C1_LivenessPriority ==
    /\ [][C1_TickOfDeadSession /\ C1_DiedThenFailed]_vars
    /\ []C1_NothingAfterDied

\* a monitor ended on session_died while its log held an unread COMPLETE marker,
\* and its run is failed
C1_Witness ==
    \E m \in Mons :
       /\ monitors[m].task = "done"
       /\ LastDelivered(m, "session_died")
       /\ HasComplete(parse_markers(Unread(m)).markers)
       /\ \E i \in 1..Len(RunsOf(m)) : RunsOf(m)[i].status = "failed"
       /\ \A i \in 1..Len(RunsOf(m)) : RunsOf(m)[i].status # "completed"

\* the events of the current batch that have been passed to on_event so far
BatchDelivered(m) ==
    SubSeq(history[m].delivered,
           Len(history[m].delivered) - monitors[m].idx + 1,
           Len(history[m].delivered))

\* C2: while a batch is dispatched the observer has received exactly its first idx
\* markers, in order, none of them before the current one a complete marker; when
\* the call for a complete marker is over the targeted run becomes completed with
\* a finish timestamp, the loop ends (_stop set, task returned) and no marker that
\* follows it in the batch is delivered.
C2_BatchPrefix ==
    \A m \in Mons :
       monitors[m].task = "await_marker"
       => /\ monitors[m].idx \in 1..Len(monitors[m].markers)
          /\ monitors[m].idx <= Len(history[m].delivered)
          /\ monitors[m].markers =
                parse_markers(SubSeq(LogOf(m).text, history[m].base + 1,
                                     history[m].end)).markers
          /\ \A j \in 1..monitors[m].idx :
                /\ BatchDelivered(m)[j].event = tagged(monitors[m], monitors[m].markers[j])
                /\ j < monitors[m].idx => monitors[m].markers[j].type # "complete"

C2_CompleteEndsLoop ==
    \A m \in Mons :
       (/\ monitors[m].task = "await_marker"
        /\ monitors[m].markers[monitors[m].idx].type = "complete"
        /\ Steps(m))
       => /\ monitors'[m] = [monitors[m] EXCEPT !.task = "done", !.stop = TRUE]
          /\ history'[m].delivered = history[m].delivered
          /\ history'[m].updates = Append(history[m].updates, "completed")
          /\ RunBecomes(m, "completed")

C2_CompleteInBatch ==
    /\ []C2_BatchPrefix
    /\ [][C2_CompleteEndsLoop]_vars

\* a monitor has ended on the complete marker of a batch that held a marker before
\* it and a marker after it
C2_Witness ==
    \E m \in Mons :
       /\ monitors[m].task = "done"
       /\ LastDelivered(m, "complete")
       /\ 1 < monitors[m].idx /\ monitors[m].idx < Len(monitors[m].markers)
       /\ history[m].updates = <<"completed">>

\* C3: once a monitor has issued the update for a complete event it calls
\* on_event no more and issues no further update.
C3_Step ==
    \A m \in Mons :
       (\E i \in 1..Len(history[m].updates) : history[m].updates[i] = "completed")
       => /\ history'[m].delivered = history[m].delivered
          /\ history'[m].updates = history[m].updates

C3_CompleteEndsMonitoring == [][C3_Step]_vars

\* a monitor has processed complete, markers were appended to its log afterwards
\* and its session is gone
C3_Witness ==
    \E m \in Mons :
       /\ history[m].updates = <<"completed">>
       /\ parse_markers(Unread(m)).markers # <<>>
       /\ ~is_session_alive(sessions, SessionOf(m))

\* the session of monitor number m is gone while its task can still run
LostWhile(m, tasks) ==
    /\ m \in Mons
    /\ monitors[m].task \in tasks
    /\ ~is_session_alive(sessions, SessionOf(m))

\* monitor number m has issued update_run with one of these statuses, or an
\* explicit stop has cancelled it or has stopped its engine, or a new start has
\* brought the session back
Settled(m, statuses) ==
    /\ m \in Mons
    /\ \/ \E i \in 1..Len(history[m].updates) : history[m].updates[i] \in statuses
       \/ monitors[m].task = "cancelled"
       \/ project_dir(monitors[m].project_name, monitors[m].engine) \in stopFiles
       \/ is_session_alive(sessions, SessionOf(m))

\* a run becomes stopped only in a step that runs stop_engine (the sentinel is
\* there, the session is not), never in a step of a monitor or of the session
StoppedOnlyByStopEngine ==
    \A p \in DOMAIN projects :
       \A i \in 1..Len(projects[p].runs) :
          (projects[p].runs[i].status = "running"
             /\ projects'[p].runs[i].status = "stopped")
          => /\ project_dir(p, projects[p].runs[i].engine) \in stopFiles'
             /\ tmux_session_name(p, projects[p].runs[i].engine) \notin sessions'
             /\ \A m \in Mons : history'[m].updates = history[m].updates

\* C4 as stated: whenever the session of a monitor whose task is alive is gone,
\* the monitor eventually issues the update to failed (unless an explicit stop
\* cancels it or a new start recreates the session).
C4_LostLeadsToFailed ==
    \A m \in 1..MaxMonitors :
       LostWhile(m, {"pending", "sleep", "await_marker", "await_died"})
       ~> Settled(m, {"failed"})

\* C4 amended: a monitor whose session is gone while it sleeps (or has not run
\* yet, or awaits the observer for session_died) eventually issues the update to
\* failed; one that is dispatching a batch when the session goes eventually issues
\* the update to failed, or to completed when that batch holds a complete marker;
\* and no run becomes stopped other than by stop_engine.
C4_LostLeadsToFailedOrBatchCompleted ==
    /\ \A m \in 1..MaxMonitors :
          LostWhile(m, {"pending", "sleep", "await_died"}) ~> Settled(m, {"failed"})
    /\ \A m \in 1..MaxMonitors :
          LostWhile(m, {"await_marker"}) ~> Settled(m, {"failed", "completed"})
    /\ \A m \in 1..MaxMonitors :
          (LostWhile(m, {"await_marker"}) /\ ~HasComplete(monitors[m].markers))
          ~> Settled(m, {"failed"})
    /\ [][StoppedOnlyByStopEngine]_vars

\* a monitor has reported the loss of its session and its run is failed, not stopped
C4_Witness ==
    \E m \in Mons :
       /\ monitors[m].task = "done"
       /\ history[m].updates = <<"failed">>
       /\ ~is_session_alive(sessions, SessionOf(m))
       /\ \E i \in 1..Len(RunsOf(m)) : RunsOf(m)[i].status = "failed"
       /\ \A i \in 1..Len(RunsOf(m)) : RunsOf(m)[i].status # "stopped"

\* the on_event calls of monitor m for session_died
DiedCalls(m) ==
    {i \in 1..Len(history[m].delivered) :
        history[m].delivered[i].event.type = "session_died"}

\* the runs of the engine of monitor m
EngineRuns(m) ==
    {i \in 1..Len(RunsOf(m)) : RunsOf(m)[i].engine = monitors[m].engine}

\* the monitors of an engine of a project that have called on_event with
\* session_died, and those of them whose call has returned
DiedMons(p, e, tasks) ==
    {m \in Mons : /\ monitors[m].project_name = p
                  /\ monitors[m].engine = e
                  /\ DiedCalls(m) # {}
                  /\ monitors[m].task \in tasks}

FailedRuns(p, e) ==
    {i \in 1..Len(projects[p].runs) : /\ projects[p].runs[i].engine = e
                                      /\ projects[p].runs[i].status = "failed"}

StartedRuns(p, e) ==
    {i \in 1..Len(projects[p].runs) : projects[p].runs[i].engine = e}

\* the session_died calls for an engine are no more than its runs, and every
\* failed run has a session_died call of its own, which has returned
C5_OneRunPerSessionDied ==
    \A p \in DOMAIN projects :
       \A e \in EngineKeys :
          /\ Cardinality(DiedMons(p, e, {"await_died", "done", "cancelled"}))
                <= Cardinality(StartedRuns(p, e))
          /\ Cardinality(FailedRuns(p, e)) <= Cardinality(DiedMons(p, e, {"done"}))

\* C5: a monitor calls on_event with session_died at most once; when it has ended
\* on session_died and its log file never existed, that call is the only one it
\* made and the only update it issued is failed; the session_died calls for an
\* engine are no more than its runs and no fewer than its failed runs; if its run is the only run of
\* the engine and stop_engine never ran for it, that run is failed with a finish
\* timestamp.
C5_SessionLossReportedOnce ==
    /\ C5_OneRunPerSessionDied
    /\ \A m \in Mons :
       /\ Cardinality(DiedCalls(m)) <= 1
       /\ (monitors[m].task = "done" /\ LastDelivered(m, "session_died")
             /\ ~LogOf(m).exists)
          => /\ history[m].delivered =
                   <<[event |-> session_died(monitors[m]), at |-> 0, raised |-> FALSE]>>
             /\ history[m].updates = <<"failed">>
             /\ (Cardinality(EngineRuns(m)) = 1
                  /\ project_dir(monitors[m].project_name, monitors[m].engine)
                        \notin stopFiles)
                => \A i \in EngineRuns(m) :
                      /\ RunsOf(m)[i].status = "failed"
                      /\ RunsOf(m)[i].finished_at = Now

\* the session was killed before any log existed: one session_died, run failed
C5_Witness ==
    \E m \in Mons :
       /\ monitors[m].task = "done"
       /\ ~LogOf(m).exists
       /\ Len(history[m].delivered) = 1
       /\ LastDelivered(m, "session_died")
       /\ Cardinality(EngineRuns(m)) = 1
       /\ \A i \in EngineRuns(m) : RunsOf(m)[i].status = "failed"

\* C6 as stated: when the observer raised for session_died the update to failed
\* is issued all the same, when it raised for complete the update to completed
\* is, and the task does not end before its time.
C6_ObserverExceptionsCaught ==
    \A m \in Mons :
       \A i \in 1..Len(history[m].delivered) :
          history[m].delivered[i].raised
          => /\ history[m].delivered[i].event.type = "session_died"
                => history[m].updates = <<"failed">>
             /\ history[m].delivered[i].event.type = "complete"
                => history[m].updates = <<"completed">>

\* the on_event calls of monitor m for markers of the log
LogCalls(m) ==
    SelectSeq(history[m].delivered, LAMBDA d : d.event.type # "session_died")

\* C7: the markers a monitor has passed to on_event were passed in the order of
\* their positions in the log, within a batch and across ticks.
C7_DeliveredInLogOrder ==
    \A m \in Mons :
       \A i, j \in 1..Len(LogCalls(m)) :
          i < j => LogCalls(m)[i].at < LogCalls(m)[j].at

\* a monitor has delivered three markers read in at least two reads
C7_Witness ==
    \E m \in Mons :
       /\ Len(LogCalls(m)) >= 3
       /\ Cardinality(history[m].reads) >= 2

\* the text monitor m has read
ReadText(m) == SubSeq(LogOf(m).text, 1, monitors[m].last_pos)

\* no match of the marker regex in the text read lies across the end of a read
NoSplit(m) ==
    LET ms == FindIter(ReadText(m), 1)
    IN  \A b \in history[m].reads :
           \A k \in 1..Len(ms) : ~(ms[k].start <= b /\ b < ms[k].end)

TagAll(mon, markers) == [i \in 1..Len(markers) |-> tagged(mon, markers[i])]

EventsOf(calls) == [i \in 1..Len(calls) |-> calls[i].event]

\* the markers up to and including the first complete marker
UpToComplete(markers) ==
    IF HasComplete(markers)
    THEN SubSeq(markers, 1,
            CHOOSE i \in 1..Len(markers) :
               /\ markers[i].type = "complete"
               /\ \A j \in 1..(i - 1) : markers[j].type # "complete")
    ELSE markers

\* monitor m is between two batches (or has ended), no marker was split by its
\* reads and parse_markers returns on the text it has read
AtRest(m) ==
    /\ monitors[m].task \in {"pending", "sleep", "await_died", "done", "failed"}
    /\ NoSplit(m)
    /\ ~parse_markers(ReadText(m)).raised

C9_StopCall ==
    \A m \in Mons :
       history'[m].stops # history[m].stops
       => /\ history'[m].delivered = history[m].delivered
          /\ history'[m].updates = history[m].updates
          /\ projects' = projects
          /\ monitors'[m].stop
          /\ monitors[m].task \in {"none", "done", "failed", "cancelled"}
             => monitors'[m] = [monitors[m] EXCEPT !.stop = TRUE]
          /\ monitors[m].task \notin {"none", "done", "failed", "cancelled"}
             => monitors'[m] = [monitors[m] EXCEPT !.stop = TRUE, !.task = "cancelled"]

C9_NothingAfterStop ==
    \A m \in Mons :
       monitors[m].stop
       => /\ history'[m].delivered = history[m].delivered
          /\ history'[m].updates = history[m].updates

C9_AtMostOneUpdate == \A m \in Mons : Len(history[m].updates) <= 1

C9_StopIdempotent ==
    /\ [][C9_StopCall /\ C9_NothingAfterStop]_vars
    /\ []C9_AtMostOneUpdate

\* stop() was called twice on a monitor whose loop had ended by itself, and on a
\* monitor before its start()
C9_Witness ==
    /\ \E m \in Mons :
          /\ history[m].stops = 2
          /\ history[m].updates # <<>>
          /\ monitors[m].task = "done"
    /\ \E m \in Mons :
          /\ history[m].stops > 0
          /\ monitors[m].task = "none"

\* C10 as stated: no project holds two runs of one engine with status running.
C10_OneRunningRunPerEngine ==
    \A p \in DOMAIN projects :
       \A i, j \in 1..Len(projects[p].runs) :
          (/\ i # j
           /\ projects[p].runs[i].engine = projects[p].runs[j].engine
           /\ projects[p].runs[i].status = "running")
          => projects[p].runs[j].status # "running"

\* the runs of an engine that are running, in a run list
RunningOf(runs, engine) ==
    {i \in 1..Len(runs) : runs[i].engine = engine /\ runs[i].status = "running"}

\* the most recent of them, 0 when there is none
MostRecentRunning(runs, engine) ==
    IF RunningOf(runs, engine) = {} THEN 0
    ELSE CHOOSE i \in RunningOf(runs, engine) :
            \A j \in RunningOf(runs, engine) : j <= i

\* update_run was called on a known project
UpdateRunCalled == call.op = "update_run" /\ ~call.raised

\* C11 as stated: after update_run(project, engine, fields) the most recent
\* running Run of the engine carries the fields and every other Run, and every
\* other project, is as before.
C11_UpdatesMostRecentRunning ==
    UpdateRunCalled
    => LET p == call.args.project_name
           i == MostRecentRunning(call.before[p].runs, call.args.engine)
       IN  i # 0
           => projects = [call.before EXCEPT ![p].runs[i] =
                             DictUpdate(@, call.args.kwargs)]

\* C12: update_run on a known project raises nothing; when the project has no
\* running Run of the engine, the store is as before; and no update_run changes
\* a Run that was not running.
C12_NoRunningRunNoOp ==
    /\ (call.op = "update_run" /\ call.args.project_name \in DOMAIN call.before)
       => ~call.raised
    /\ UpdateRunCalled
       => /\ RunningOf(call.before[call.args.project_name].runs, call.args.engine) = {}
             => projects = call.before
          /\ DOMAIN projects = DOMAIN call.before
          /\ \A n \in DOMAIN call.before :
                /\ Len(projects[n].runs) = Len(call.before[n].runs)
                /\ \A i \in 1..Len(call.before[n].runs) :
                      call.before[n].runs[i].status # "running"
                      => projects[n].runs[i] = call.before[n].runs[i]

\* a second stop of an engine whose only Run is already stopped
C12_Witness ==
    /\ UpdateRunCalled
    /\ call.args.kwargs.status = "stopped"
    /\ LET runs == call.before[call.args.project_name].runs
       IN  /\ RunningOf(runs, call.args.engine) = {}
           /\ \E i \in 1..Len(runs) : /\ runs[i].engine = call.args.engine
                                      /\ runs[i].status = "stopped"
           /\ \E i \in 1..Len(runs) : runs[i].status = "running"

\* C13 as stated: create_project with a name that is in the store fails and
\* leaves the store as it was.
C13_CreateFailsOnExistingName ==
    (call.op = "create_project" /\ call.args.name \in DOMAIN call.before)
    => /\ call.raised
       /\ projects = call.before

\* C14: add_run on a known project appends one Run (running, phase 0, no finish
\* timestamp, the engine and the session given) at the end of the run list, sets
\* the status of the project to running and changes nothing else.
C14_AddRunAppendsOne ==
    (call.op = "add_run" /\ call.args.project_name \in DOMAIN call.before)
    => LET p == call.args.project_name
           old == call.before[p].runs
           new == projects[p].runs
       IN  /\ ~call.raised
           /\ Len(new) = Len(old) + 1
           /\ SubSeq(new, 1, Len(old)) = old
           /\ new[Len(new)].status = "running"
           /\ new[Len(new)].phase = 0
           /\ new[Len(new)].finished_at = None
           /\ new[Len(new)].engine = call.args.engine
           /\ new[Len(new)].tmux_session = call.args.tmux_session
           /\ projects[p].status = "running"
           /\ projects[p].engines = call.before[p].engines
           /\ projects[p].created_by = call.before[p].created_by
           /\ DOMAIN projects = DOMAIN call.before
           /\ \A n \in DOMAIN projects \ {p} : projects[n] = call.before[n]

\* add_run on a project that holds a finished Run, beside another project
C14_Witness ==
    /\ call.op = "add_run"
    /\ call.args.project_name \in DOMAIN call.before
    /\ Len(call.before[call.args.project_name].runs) > 0
    /\ call.before[call.args.project_name].runs[1].status = "completed"
    /\ Cardinality(DOMAIN projects) = 2

\* C15: add_run with a name that is not in the store raises and leaves the store
\* as it was: no project of that name, no Run more.
C15_AddRunUnknownProject ==
    (call.op = "add_run" /\ call.args.project_name \notin DOMAIN call.before)
    => /\ call.raised
       /\ projects = call.before
       /\ call.args.project_name \notin DOMAIN projects

\* add_run for a name that is not in a store that holds another project
C15_Witness ==
    /\ call.op = "add_run"
    /\ call.args.project_name \notin DOMAIN call.before
    /\ call.before # <<>>

\* C16: when a monitor has issued its terminal update, the Run of its engine
\* carries the status of that update and a finish timestamp, whatever the monitor
\* of the other engine of the project did before or after (the project was
\* started once and stop_engine did not run for the engine).
C16_NoUpdateLost ==
    \A m \in Mons :
       (/\ history[m].updates # <<>>
        /\ Cardinality(EngineRuns(m)) = 1
        /\ project_dir(monitors[m].project_name, monitors[m].engine) \notin stopFiles)
       => \A i \in EngineRuns(m) :
             /\ RunsOf(m)[i].status = history[m].updates[1]
             /\ RunsOf(m)[i].finished_at = Now

\* the monitors of the two engines of one project have both issued their
\* terminal update, one completed and one failed
C16_Witness ==
    \E m1, m2 \in Mons :
       /\ monitors[m1].project_name = monitors[m2].project_name
       /\ monitors[m1].engine # monitors[m2].engine
       /\ history[m1].updates = <<"completed">>
       /\ history[m2].updates = <<"failed">>
       /\ Len(RunsOf(m1)) = 2
       /\ \A i \in 1..2 : RunsOf(m1)[i].status # "running"

\* C17 as stated: after a call of create_project, add_run or update_run every
\* project that was in the store is in it, its run list is no shorter, and each
\* Run it held keeps its position, engine, session and start timestamp.
C17_RunsNeverDeleted ==
    call.op \in {"create_project", "add_run", "update_run"}
    => \A n \in DOMAIN call.before :
          /\ n \in DOMAIN projects
          /\ Len(projects[n].runs) >= Len(call.before[n].runs)
          /\ \A i \in 1..Len(call.before[n].runs) :
                /\ projects[n].runs[i].engine = call.before[n].runs[i].engine
                /\ projects[n].runs[i].tmux_session
                      = call.before[n].runs[i].tmux_session
                /\ projects[n].runs[i].started_at = call.before[n].runs[i].started_at

\* C18: every Run has one of the four statuses, and it has no finish timestamp
\* exactly when its status is running.
C18_NoPartialRun ==
    \A p \in DOMAIN projects :
       \A i \in 1..Len(projects[p].runs) :
          /\ projects[p].runs[i].status \in {"running", "completed", "failed", "stopped"}
          /\ projects[p].runs[i].finished_at = None
             <=> projects[p].runs[i].status = "running"

\* a project holds a Run ended by its monitor and a Run ended by stop_engine
C18_Witness ==
    \E p \in DOMAIN projects :
       /\ \E i \in 1..Len(projects[p].runs) :
             projects[p].runs[i].status \in {"failed", "completed"}
       /\ \E i \in 1..Len(projects[p].runs) : projects[p].runs[i].status = "stopped"

\* C19: no step lowers the phase of a Run.
C19_Step ==
    \A p \in DOMAIN projects :
       /\ p \in DOMAIN projects'
       /\ \A i \in 1..Len(projects[p].runs) :
             /\ i <= Len(projects'[p].runs)
             /\ projects'[p].runs[i].phase >= projects[p].runs[i].phase

C19_PhaseNeverLowered == [][C19_Step]_vars

\* a Run has ended after its monitor delivered the markers of phase 2 and phase 1
C19_Witness ==
    \E m \in Mons :
       /\ \E i \in 1..Len(history[m].delivered) :
             /\ history[m].delivered[i].event.type = "phase"
             /\ history[m].delivered[i].event.phase = 2
       /\ \E i \in 1..Len(history[m].delivered) :
             /\ history[m].delivered[i].event.type = "phase"
             /\ history[m].delivered[i].event.phase = 1
       /\ history[m].updates = <<"completed">>
       /\ \A i \in 1..Len(RunsOf(m)) : RunsOf(m)[i].phase = 0

\* the five kinds of marker
KnownTypes == {"PHASE", "CLARIFY", "ERROR", "COST", "COMPLETE"}

\* a piece of text that is a marker of a known TYPE
KnownMarker(piece) == piece[1] = OPEN /\ piece[2] \in KnownTypes

KnownPieces(pieces) == SelectSeq(pieces, KnownMarker)

\* the events of each piece parsed by itself, one after the other
RECURSIVE EventsPieceByPiece(_)
EventsPieceByPiece(pieces) ==
    IF pieces = <<>> THEN <<>>
    ELSE parse_markers(Head(pieces)).markers \o EventsPieceByPiece(Tail(pieces))

\* C20: on a text of well-formed markers and chatter parse_markers returns one
\* event per marker of a known TYPE, in the order of the markers in the text,
\* each the event of its marker; markers of another TYPE (DEBUG, or complete in
\* lower case) yield no event, and the result is the same without them.
C20_OneEventPerKnownMarker ==
    call.op = "parse_markers"
    => LET pieces == call.args.pieces
           known == KnownPieces(pieces)
           events == call.result.markers
       IN  /\ ~call.result.raised
           /\ Len(events) = Len(known)
           /\ \A i \in 1..Len(known) : events[i].type = LowerTok(known[i][2])
           /\ events = EventsPieceByPiece(pieces)
           /\ events = parse_markers(Concat(known)).markers
           /\ \A i \in 1..Len(pieces) :
                 ~KnownMarker(pieces[i]) => parse_markers(pieces[i]).markers = <<>>

\* a text with two markers of known TYPE around a marker of unknown TYPE
C20_Witness ==
    /\ call.op = "parse_markers"
    /\ Len(call.args.pieces) = 3
    /\ KnownMarker(call.args.pieces[1])
    /\ call.args.pieces[2][2] = "complete"
    /\ KnownMarker(call.args.pieces[3])
    /\ call.args.pieces[1] # call.args.pieces[3]
    /\ Len(call.result.markers) = 2

\* ------------------------------------------------------ payloads (C21-C23)
\* the payload of a marker piece, and its segments between the colons
PayloadOf(piece) ==
    IF Len(piece) > 3 THEN SubSeq(piece, 4, Len(piece) - 1) ELSE <<>>

SegmentsOf(piece) == Split(PayloadOf(piece))

IsPhase(piece) == piece[2] = "PHASE"
IsCost(piece) == piece[2] = "COST"

\* a PHASE marker without an action segment, or whose phase number is no integer
NoActionSegment(piece) == IsPhase(piece) /\ Len(SegmentsOf(piece)) < 2
NonIntegerPhase(piece) ==
    /\ IsPhase(piece)
    /\ Len(SegmentsOf(piece)) >= 2
    /\ SegmentsOf(piece)[1] \notin {<<n>> : n \in IntTok}
MalformedPhase(piece) == NoActionSegment(piece) \/ NonIntegerPhase(piece)

WellFormed(piece) == ~MalformedPhase(piece)

\* a COST marker whose first payload segment is a number
NumericCost(piece) ==
    IsCost(piece) /\ SegmentsOf(piece)[1] \in {<<n>> : n \in IntTok \cup FloatTok}

\* C21: a PHASE marker with a non-integer phase number or without an action
\* segment is dropped: parse_markers returns normally, emits no event for that
\* marker and still emits the events of the well-formed markers around it (here
\* on texts whose COST markers all carry a number, so that nothing else is at
\* stake).
C21_MalformedPhaseDropped ==
    call.op = "parse_markers"
    => LET pieces == call.args.pieces
       IN  (\A i \in 1..Len(pieces) : IsCost(pieces[i]) => NumericCost(pieces[i]))
           => /\ ~call.result.raised
              /\ call.result.markers
                    = EventsPieceByPiece(SelectSeq(pieces, WellFormed))

\* the amount and the provider the COST marker of a piece stands for: the float
\* of the first segment, or 0 when it is no number; the second segment, or unknown
CostAmount(piece) ==
    IF NumericCost(piece) THEN FloatVal(SegmentsOf(piece)[1][1]) ELSE 0

CostProvider(piece) ==
    IF Len(SegmentsOf(piece)) > 1 THEN SegmentsOf(piece)[2] ELSE <<"unknown">>

CostEvent(piece) ==
    [type |-> "cost", amount |-> CostAmount(piece), provider |-> CostProvider(piece)]

\* C22: every COST marker yields a cost event with the float of its first
\* segment, or 0 when there is none, and its second segment or unknown as the
\* provider; parsing never fails on a COST marker (here on texts whose PHASE
\* markers are all well formed).
C22_CostAlwaysYieldsEvent ==
    call.op = "parse_markers"
    => LET pieces == call.args.pieces
       IN  (\A i \in 1..Len(pieces) : WellFormed(pieces[i]))
           => /\ ~call.result.raised
              /\ SelectSeq(call.result.markers, LAMBDA e : e.type = "cost")
                    = [i \in 1..Len(SelectSeq(pieces, IsCost)) |->
                          CostEvent(SelectSeq(pieces, IsCost)[i])]

IsJsonMarker(piece) == piece[2] \in {"CLARIFY", "COMPLETE"}

\* the event a CLARIFY or COMPLETE marker stands for: the decoded object, or the
\* raw payload under question or summary
JsonEvent(piece) ==
    [type |-> LowerTok(piece[2]),
     data |-> IF PayloadOf(piece) = <<"{ok}">> THEN [ok |-> TRUE]
              ELSE IF piece[2] = "CLARIFY" THEN [question |-> PayloadOf(piece)]
              ELSE [summary |-> PayloadOf(piece)]]

\* C23: every CLARIFY and COMPLETE marker yields exactly one event whatever its
\* payload: parsed by itself it gives the decoded object, or the raw payload
\* wrapped as question or summary when it does not decode, and a text that
\* parse_markers returns from has one such event per marker, in order.
C23_OneEventPerJsonMarker ==
    call.op = "parse_markers"
    => LET pieces == call.args.pieces
           js == SelectSeq(pieces, IsJsonMarker)
       IN  /\ \A i \in 1..Len(js) :
                 parse_markers(js[i]) = [raised |-> FALSE, markers |-> <<JsonEvent(js[i])>>]
           /\ ~call.result.raised
              => SelectSeq(call.result.markers,
                           LAMBDA e : e.type \in {"clarify", "complete"})
                    = [i \in 1..Len(js) |-> JsonEvent(js[i])]

\* a text with an undecodable CLARIFY, a decodable COMPLETE and a COMPLETE whose
\* payload does not decode
C23_Witness ==
    /\ call.op = "parse_markers"
    /\ call.args.pieces = << <<OPEN, "CLARIFY", COLON, "x", COLON, "end", CLOSE>>,
                             <<OPEN, "COMPLETE", COLON, "{ok}", CLOSE>>,
                             <<OPEN, "COMPLETE", COLON, "x", CLOSE>> >>
    /\ Len(call.result.markers) = 3
    /\ call.result.markers[1].data = [question |-> <<"x", COLON, "end">>]
    /\ call.result.markers[3].data = [summary |-> <<"x">>]

\* ------------------------------------------------- the engines (C24, C25)
\* the runs of (project, engine) in a store
EngineRunsIn(store, project_name, engine) ==
    SelectSeq(store[project_name].runs, LAMBDA r : r.engine = engine)

\* C24: after stop_engine on a running Run the sentinel stop file exists in the
\* working directory and the session is not alive; stop_engine on an engine that
\* has a Run and whose session no longer exists raises nothing and returns false.
C24_StopEngineStopsSession ==
    call.op = "stop_engine"
    => LET p == call.args.project_name
           e == call.args.engine
           runs == EngineRunsIn(call.before.projects, p, e)
           wasAlive == is_session_alive(call.before.sessions, tmux_session_name(p, e))
       IN  /\ (\E i \in 1..Len(runs) : runs[i].status = "running")
              => /\ ~call.raised
                 /\ project_dir(p, e) \in stopFiles
                 /\ ~is_session_alive(sessions, tmux_session_name(p, e))
                 /\ call.returned = wasAlive
           /\ (runs # <<>> /\ ~wasAlive)
              => ~call.raised /\ ~call.returned

\* stop_engine on a running Run whose session has ended, and on one whose
\* session is alive
C24_Witness ==
    /\ call.op = "stop_engine"
    /\ ~call.raised
    /\ ~call.returned
    /\ \E i \in 1..Len(call.before.projects[call.args.project_name].runs) :
          LET r == call.before.projects[call.args.project_name].runs[i]
          IN  r.engine = call.args.engine /\ r.status = "running"
    /\ project_dir(call.args.project_name, call.args.engine) \notin call.before.stopFiles

\* C25: start_engine kills the session of that name before it creates one, and
\* registers a Run only when the session was created and the start command
\* injected: a failure of either is raised to the caller, with the store as it
\* was (and, when the creation failed, with no session of that name left).
C25_StartEngineAllOrNothing ==
    call.op = "start_engine"
    => LET p == call.args.project_name
           e == call.args.engine
           o == call.args.outcome
           session == tmux_session_name(p, e)
           old == call.before.projects
       IN  IF o = "ok"
           THEN /\ ~call.raised
                /\ Len(projects[p].runs) = Len(old[p].runs) + 1
                /\ SubSeq(projects[p].runs, 1, Len(old[p].runs)) = old[p].runs
                /\ projects[p].runs[Len(projects[p].runs)].engine = e
                /\ projects[p].runs[Len(projects[p].runs)].tmux_session = session
                /\ projects[p].runs[Len(projects[p].runs)].status = "running"
           ELSE /\ call.raised
                /\ projects = old
                /\ o = "new_session_failed" => ~is_session_alive(sessions, session)

\* the start command could not be injected into the session that replaced a
\* live one: the failure is raised and no Run is added to the one there was
C25_Witness ==
    /\ call.op = "start_engine"
    /\ call.args.outcome = "send_keys_failed"
    /\ call.raised
    /\ tmux_session_name(call.args.project_name, call.args.engine)
          \in call.before.sessions
    /\ Len(projects[call.args.project_name].runs) = 1

\* ------------------------------------------------------ the names (C26)
\* C26: two distinct (project, engine) pairs, of project names that name_input
\* accepts and engines of the registry, never have the same session name or the
\* same working directory.
C26_NamesCollisionFree ==
    (call.op = "names" /\ call.args.a # call.args.b)
    => /\ call.result.a.session # call.result.b.session
       /\ call.result.a.dir # call.result.b.dir

\* two projects of which one is named as the other followed by a hyphen and an
\* engine key, each with an engine
C26_Witness ==
    /\ call.op = "names"
    /\ call.args.a[1] = <<"claude">>
    /\ call.args.b[1] = <<"claude", "-", "claude">>
    /\ call.result.a.session = <<"claude", "-", "claude">>
    /\ call.result.b.session = <<"claude", "-", "claude", "-", "gemini">>

\* ------------------------------------------------- the read offset (C27)
\* monitor m has read the log in this step
ReadsNow(m) ==
    \/ history'[m].base # history[m].base
    \/ history'[m].end # history[m].end
    \/ history'[m].reads # history[m].reads
    \/ monitors'[m].last_pos # monitors[m].last_pos

C27_Step(m) ==
    /\ monitors'[m].last_pos >= monitors[m].last_pos
    /\ ReadsNow(m)
       => /\ history'[m].base = monitors[m].last_pos
          /\ history'[m].base >= history[m].end
          /\ history'[m].end = Len(LogOf(m).text)
          /\ monitors'[m].last_pos - monitors[m].last_pos
                = history'[m].end - history'[m].base

\* C27: the read offset of a monitor never decreases; a read begins at the
\* offset, which is at or after the end of every earlier read of that monitor (no
\* position of the log is handed to the parser twice), and moves the offset on by
\* the length of what it read.
C27_OffsetAdvancesByRead == [][\A m \in Mons : C27_Step(m)]_vars

\* a monitor has read its log in two reads that ended at different offsets, up
\* to the end of the text
C27_Witness ==
    \E m \in Mons :
       /\ Cardinality(history[m].reads) >= 2
       /\ history[m].base > 0
       /\ history[m].end > history[m].base
       /\ monitors[m].last_pos = Len(LogOf(m).text)

\* --------------------------------------------- failures of a tick (C28, C29)
\* the chunk monitor m handed to the parser in its last read
LastChunk(m) == SubSeq(LogOf(m).text, history[m].base + 1, history[m].end)

\* C28: a failure while parsing one chunk does not stop the monitor: once the
\* offset is past a chunk that parse_markers raised on, the task of the monitor
\* is still one that polls (or one that ended by stop() or a terminal event),
\* never one that ended with the exception of the parser.
C28_ParseFailureKeepsPolling ==
    \A m \in Mons :
       (history[m].end > history[m].base /\ parsed[LastChunk(m)].raised
          /\ monitors[m].last_pos = history[m].end)
       => monitors[m].task \in {"sleep", "await_marker", "await_died", "done",
                                "cancelled"}

\* a tick of monitor m on which the session is alive and the log is missing or
\* the read raises OSError
UnreadableTick(m) ==
    /\ is_session_alive(sessions, SessionOf(m))
    /\ \E oserror \in BOOLEAN :
          /\ ~LogOf(m).exists \/ oserror
          /\ MonitorTick(m, oserror)

\* C29: a tick on which the session is alive and the log does not exist or the
\* read raises an I/O error delivers no event, leaves the read offset and the
\* Runs as they are, and leaves the monitor asleep until its next tick.
C29_UnreadableTickChangesNothing ==
    [][\A m \in Mons :
          UnreadableTick(m)
          => /\ history'[m] = history[m]
             /\ monitors'[m].last_pos = monitors[m].last_pos
             /\ monitors'[m].task = "sleep"
             /\ projects' = projects]_vars

\* a monitor that has read a part of its log is asleep, its session alive, with
\* unread text in the log: the read of its next tick may raise
C29_Witness ==
    \E m \in Mons :
       /\ monitors[m].task = "sleep"
       /\ is_session_alive(sessions, SessionOf(m))
       /\ LogOf(m).exists
       /\ history[m].reads # {}
       /\ 0 < monitors[m].last_pos
       /\ monitors[m].last_pos < Len(LogOf(m).text)
       /\ TargetRun(m) # 0

\* --------------------------------------------- stop() while running (C30)
\* the task of a monitor exists and has not ended
Running(mon) == mon.task \in {"pending", "sleep", "await_died", "await_marker"}

C30_Step(m) ==
    /\ (history'[m].stops # history[m].stops /\ Running(monitors[m]))
       => monitors'[m].task = "cancelled"
    /\ monitors[m].task = "cancelled"
       => /\ monitors'[m].task = "cancelled"
          /\ history'[m].delivered = history[m].delivered
          /\ history'[m].updates = history[m].updates
          /\ monitors'[m].last_pos = monitors[m].last_pos

\* C30: stop() on a monitor whose task is running ends the task at the point it
\* is suspended at, the sleep or the call of the observer, and from then on that
\* monitor calls the observer no more, updates no Run and reads no more.
C30_StopEndsRunningMonitor == [][\A m \in Mons : C30_Step(m)]_vars

\* a monitor was stopped while it awaited the observer with markers of its batch
\* still to deliver, and its Run is still running
C30_Witness ==
    \E m \in Mons :
       /\ monitors[m].task = "cancelled"
       /\ history[m].stops > 0
       /\ monitors[m].idx > 0
       /\ monitors[m].idx < Len(monitors[m].markers)
       /\ Len(history[m].delivered) = monitors[m].idx
       /\ history[m].updates = <<>>

\* ------------------------------------- monitors of one engine (C31, C32)
SameEngine(m, n) ==
    /\ monitors[m].project_name = monitors[n].project_name
    /\ monitors[m].engine = monitors[n].engine

\* C31: at most one monitor polls for a (project, engine) at any time, and no
\* marker of the log is passed to the observer by two monitors.
C31_OneLiveMonitorPerEngine ==
    \A m, n \in Mons :
       (m # n /\ SameEngine(m, n))
       => /\ ~(Running(monitors[m]) /\ Running(monitors[n]))
          /\ \A i \in 1..Len(LogCalls(m)), j \in 1..Len(LogCalls(n)) :
                LogCalls(m)[i].at # LogCalls(n)[j].at

\* the Run monitor m was started for: start_engine adds a Run and the handler
\* starts a monitor, one after the other, so the k-th monitor of a project
\* belongs to its k-th Run
OwnIndex(m) ==
    Cardinality({k \in 1..m : monitors[k].project_name = monitors[m].project_name})

OwnRun(m) == RunsOf(m)[OwnIndex(m)]

C32_Step(m) ==
    /\ (/\ Len(history'[m].delivered) > Len(history[m].delivered)
        /\ history'[m].delivered[Len(history'[m].delivered)].event.type
              = "session_died")
       => OwnRun(m).status = "running"
    /\ (/\ Len(history'[m].updates) > Len(history[m].updates)
        /\ history'[m].updates[Len(history'[m].updates)] = "failed")
       => \A i \in 1..Len(RunsOf(m)) :
             i # OwnIndex(m)
             => projects'[monitors[m].project_name].runs[i] = RunsOf(m)[i]

\* C32: a monitor passes session_died to the observer only while the Run it was
\* started for is running (never for a Run that a stop has moved to stopped), and
\* the update that follows changes no other Run.
C32_SessionDiedOnlyWhileRunning == [][\A m \in Mons : C32_Step(m)]_vars

\* ------------------------------------------------ the phase of a Run (C33)
\* the PHASE end events monitor m has passed to the observer
PhaseEnds(m) ==
    SelectSeq(history[m].delivered,
              LAMBDA d : d.event.type = "phase" /\ d.event.action = <<"end">>)

\* C33: once a monitor has processed a PHASE end marker with number n (the
\* observer has returned and the monitor sleeps or has ended), the phase of its
\* Run in the store is n, the number of the last PHASE end marker.
C33_PhaseFollowsMarkers ==
    \A m \in Mons :
       (monitors[m].task \in {"sleep", "done"} /\ PhaseEnds(m) # <<>>)
       => OwnRun(m).phase = PhaseEnds(m)[Len(PhaseEnds(m))].event.phase

\* -------------------------------------------------------- restarts (C34)
\* C34: after a restart of the process every Run still recorded as running has
\* a monitor whose task polls for its engine.
C34_RunningRunsMonitoredAfterRestart ==
    [][Restart
       => \A p \in DOMAIN projects :
             \A i \in 1..Len(projects[p].runs) :
                projects[p].runs[i].status = "running"
                => \E m \in 1..Len(monitors') :
                      /\ monitors'[m].project_name = p
                      /\ monitors'[m].engine = projects[p].runs[i].engine
                      /\ Running(monitors'[m])]_vars

\* ------------------------------------------- terminal statuses (C35)
TerminalStatuses == {"completed", "failed", "stopped"}

C35_Step ==
    \A p \in DOMAIN projects :
       \A i \in 1..Len(projects[p].runs) :
          projects[p].runs[i].status \in TerminalStatuses
          => /\ p \in DOMAIN projects'
             /\ i <= Len(projects'[p].runs)
             /\ projects'[p].runs[i].status = projects[p].runs[i].status
             /\ projects'[p].runs[i].finished_at = projects[p].runs[i].finished_at

\* C35: a Run whose status is completed, failed or stopped keeps that status and
\* its finish timestamp in every step: monitor ticks, stop_engine and update_run
\* leave it as it is.
C35_TerminalStatusAbsorbing == [][C35_Step]_vars

\* the only Run of an engine is completed and stop_engine was called on it: with
\* the sentinel of a stop before the COMPLETE marker the Run would be stopped
C35_Witness ==
    \E p \in DOMAIN projects :
       /\ Len(projects[p].runs) = 1
       /\ projects[p].runs[1].status = "completed"
       /\ project_dir(p, projects[p].runs[1].engine) \in stopFiles

\* --------------------------------------- complete against stop (C36)
\* the observer was called by monitor m with a complete event
CompleteDelivered(m) ==
    \E i \in 1..Len(history[m].delivered) :
       history[m].delivered[i].event.type = "complete"

\* C36: when the observer has been called with a complete event for a Run and
\* the task of the monitor has ended, by itself or by stop(), the status of that
\* Run is completed.
C36_CompleteDeliveredIsCompleted ==
    \A m \in Mons :
       (CompleteDelivered(m) /\ monitors[m].task \in {"done", "cancelled"})
       => OwnRun(m).status = "completed"

\* ------------------------------------------- the log of an earlier Run (C37)
\* cmd_stop stops the monitor stored in _monitors, and a later start stores the
\* new monitor in its place: a monitor that was stopped by stop() was stopped
\* before the next monitor of its engine was constructed, so the markers it had
\* delivered were in the log, left by its Run, when the next Run was started
StoppedBefore(m, n) == m < n /\ SameEngine(m, n) /\ history[m].stops > 0

\* C37: the monitor of a new Run does not pass to the observer the markers that
\* the earlier Run of its engine left in the log, and does not record the new
\* Run as completed without a COMPLETE marker that the earlier monitor had not
\* yet read.
C37_NoReplayOfEarlierRun ==
    \A m, n \in Mons :
       StoppedBefore(m, n)
       => /\ \A i \in 1..Len(LogCalls(m)), j \in 1..Len(LogCalls(n)) :
                LogCalls(n)[j].at # LogCalls(m)[i].at
          /\ history[n].updates = <<"completed">>
             => \E j \in 1..Len(LogCalls(n)) :
                   /\ LogCalls(n)[j].event.type = "complete"
                   /\ LogCalls(n)[j].at > history[m].end

\* ----------------------------------------------- terminal events (C38)
\* the calls of the observer by monitor m with a terminal event
TerminalCalls(m) ==
    {i \in 1..Len(history[m].delivered) :
        history[m].delivered[i].event.type \in {"complete", "session_died"}}

\* C38: a monitor passes at most one terminal event (complete or session_died)
\* to the observer, nothing after it, and issues at most one Run update, which
\* is completed after complete and failed after session_died.
C38_OneTerminalEvent ==
    \A m \in Mons :
       /\ Cardinality(TerminalCalls(m)) <= 1
       /\ \A i \in TerminalCalls(m) : i = Len(history[m].delivered)
       /\ Len(history[m].updates) <= 1
       /\ history[m].updates = <<"completed">> => LastDelivered(m, "complete")
       /\ history[m].updates = <<"failed">> => LastDelivered(m, "session_died")
       /\ history[m].updates # <<>> => history[m].updates[1] \in {"completed", "failed"}

\* a monitor has ended on the first COMPLETE marker of a batch that held more
\* markers, a second COMPLETE among them
C38_Witness ==
    \E m \in Mons :
       /\ monitors[m].task = "done"
       /\ history[m].updates = <<"completed">>
       /\ monitors[m].idx < Len(monitors[m].markers)
       /\ \E k \in (monitors[m].idx + 1)..Len(monitors[m].markers) :
             monitors[m].markers[k].type = "complete"

\* ------------------------------------------- the status of a project (C39)
\* C39: the status of a project is created exactly while it has no Runs and
\* running from its first Run on, whatever the statuses of its Runs become.
C39_ProjectStatusFollowsAddRun ==
    \A p \in DOMAIN projects :
       /\ projects[p].status \in {"created", "running"}
       /\ projects[p].status = "created" <=> projects[p].runs = <<>>

\* a project whose Runs have all ended, one completed by its monitor and one
\* stopped or failed, is still running
C39_Witness ==
    \E p \in DOMAIN projects :
       /\ projects[p].status = "running"
       /\ Len(projects[p].runs) >= 2
       /\ \A i \in 1..Len(projects[p].runs) :
             projects[p].runs[i].status \in TerminalStatuses
       /\ \E i \in 1..Len(projects[p].runs) : projects[p].runs[i].status = "completed"
       /\ \E i \in 1..Len(projects[p].runs) : projects[p].runs[i].status # "completed"
====
